---------------------------- MODULE Spec2Model ----------------------------
(***************************************************************************)
(* Model of the DirectShow local video device of Computer Vision Sandbox   *)
(* (XLocalVideoDevice / XLocalVideoDeviceData, XLocalVideoDevice.cpp).     *)
(*                                                                         *)
(* Threads: facade callers, the background thread running RunVideo( ), and *)
(* the capture graph's streaming thread calling SampleGrabber::BufferCB.   *)
(* A facade call that neither blocks nor waits is one atomic action (it    *)
(* runs under Sync or RunningSync from its first to its last statement).   *)
(* RunVideo( ) is cut at every point where it waits or takes a lock:       *)
(* pc is its position, "none" when BackgroundThread is not running.        *)
(*                                                                         *)
(* The property getters (GetVideoProperty, GetVideoPropertyRange and the   *)
(* camera twins) change no field of the object, so they are operators of   *)
(* the current state and of their arguments, not actions.                  *)
(***************************************************************************)
EXTENDS Integers, Sequences, FiniteSets, TLC

VARIABLES
    DeviceMoniker,          \* string                      (Sync)
    Resolution,             \* XDeviceCapabilities         (Sync)
    RequestedFps,           \* uint32_t                    (Sync)
    VideoInput,             \* XDevicePinInfo
    NeedToSetVideoInput,    \* volatile bool
    Capabilities,           \* vector<XDeviceCapabilities> cached by discovery
    VideoPins,              \* vector<XDevicePinInfo>      cached by discovery
    IsCrossbarAvailable,    \* bool                        cached by discovery
    InfoCollectedEvent,     \* XManualResetEvent: TRUE when signaled
    Listener,               \* IVideoSourceListener* or NoListener
    ExitEvent,              \* XManualResetEvent: TRUE when signaled
    FramesCounter,          \* uint32_t
    DeviceIsRunningEvent,   \* XManualResetEvent: TRUE when signaled
    DeviceIsRunning,        \* bool                        (RunningSync)
    VideoProcAmp,           \* IAMVideoProcAmp*: TRUE when not nullptr
    CameraControl,          \* IAMCameraControl*: TRUE when not nullptr
    VideoPropertiesToSet,   \* map<XVideoProperty, PropValue>
    CameraPropertiesToSet,  \* map<XCameraProperty, PropValue>
    pc,                     \* position of the background thread in RunVideo( )
    RunningSyncOwner,       \* who holds RunningSync between two steps
    SyncOwner,              \* who holds Sync between two steps
    waiter,                 \* the wait a facade caller is blocked in, or "none"
    crossbarInput,          \* the device: index of the crossbar input routed to the decoder
    seen,                   \* what each discovery accessor returned last since the moniker was set,
                            \* whether it returned without timing out, with no Start( ) since
    lastCall,               \* << op, output >> of the last step: what it returned, wrote to
                            \* hardware and told the listener, behind the name of the operation
    mWidth,                 \* SampleGrabber: int, set by SetVideoSize( )
    mHeight,                \* SampleGrabber: int, set by SetVideoSize( )
    mSSSE3supported,        \* SampleGrabber: bool, IsSSSE3( ) in the constructor
    sample,                 \* << pBuffer, bufferLen >> of the buffer the graph hands to BufferCB
    mImage                  \* SampleGrabber: the rows of the image, top row first; << >> before the first

vars == << DeviceMoniker, Resolution, RequestedFps, VideoInput, NeedToSetVideoInput,
           Capabilities, VideoPins, IsCrossbarAvailable, InfoCollectedEvent, Listener,
           ExitEvent, FramesCounter, DeviceIsRunningEvent, DeviceIsRunning,
           VideoProcAmp, CameraControl, VideoPropertiesToSet, CameraPropertiesToSet,
           pc, RunningSyncOwner, SyncOwner, waiter, crossbarInput, seen, lastCall,
           mWidth, mHeight, mSSSE3supported, sample, mImage >>

configVars == << DeviceMoniker, Resolution, RequestedFps, VideoInput, NeedToSetVideoInput >>
cacheVars  == << Capabilities, VideoPins, IsCrossbarAvailable >>
runVars    == << DeviceIsRunningEvent, DeviceIsRunning, VideoProcAmp, CameraControl >>
propVars   == << VideoPropertiesToSet, CameraPropertiesToSet >>
lockVars   == << RunningSyncOwner, SyncOwner >>
grabberVars == << mWidth, mHeight, mSSSE3supported, sample, mImage >>

-----------------------------------------------------------------------------
(* Bounds of the model *)

MaxFrames == 2

-----------------------------------------------------------------------------
(* Values *)

NoListener == "nullptr"
Listeners  == { "L1" }

None == "none"

\* XVideoProperty: Brightness = 0 .. Gain = 9
VideoPropertyFirst == 0
VideoPropertyLast  == 9
\* XCameraProperty: Pan = 0 .. Focus = 6 (the seven entries of nativeCameraProperties)
CameraPropertyFirst == 0
CameraPropertyLast  == 6

\* the property ids callers pass: both ends of the range and the first id outside each end
VideoPropertyInputs  == { VideoPropertyFirst - 1, VideoPropertyFirst, VideoPropertyLast, VideoPropertyLast + 1 }
CameraPropertyInputs == { CameraPropertyFirst - 1, CameraPropertyLast, CameraPropertyLast + 1 }

\* PropValue( value, automatic ) as callers pass it
PropValueInputs == { << 1, FALSE >>, << 2, TRUE >> }

EmptyMap == [ p \in {} |-> << 0, FALSE >> ]

\* an assignment that replaces the map by the one entry
MapPutAlone( m, k, v ) ==
    [ x \in { k } |-> v ]

\* map[key] = value of std::map
MapPut( m, k, v ) ==
    [ x \in ( DOMAIN m ) \cup { k } |-> IF x = k THEN v ELSE m[x] ]

\* XDeviceCapabilities( ): all fields zero
DefaultCap == [ width |-> 0, height |-> 0, bits |-> 0, fps |-> 0, minFps |-> 0, maxFps |-> 0 ]

Cap( w, h, b, f, lo, hi ) == [ width |-> w, height |-> h, bits |-> b, fps |-> f, minFps |-> lo, maxFps |-> hi ]

\* XDevicePinInfo( ): no index, type Unknown
DefaultPin == [ index |-> -1, type |-> "Unknown", isInput |-> FALSE ]

Monikers == { "", "camA", "camB" }

\* the formats IAMStreamConfig::GetStreamCaps enumerates for a device, as the
\* XDeviceCapabilities built from each (width 0: not a video format)
DeviceFormats( moniker ) ==
    IF moniker = "camA"
    THEN << Cap( 640, 480, 12, 30, 30, 5 ), Cap( 640, 480, 16, 30, 30, 5 ),
            Cap( 640, 480, 24, 30, 30, 5 ), Cap( 320, 240, 24, 15, 30, 5 ),
            Cap( 640, 480, 24, 30, 30, 5 ), Cap( 320, 240, 16, 30, 30, 5 ) >>
    ELSE IF moniker = "camB"
    THEN << Cap( 320, 240, 24, 30, 30, 5 ), DefaultCap, Cap( 320, 240, 16, 30, 30, 5 ) >>
    ELSE << >>

\* the video input pins of the device's crossbar (camB has no crossbar)
DeviceCrossbarInputs( moniker ) ==
    IF moniker = "camA"
    THEN << [ index |-> 0, type |-> "Composite", isInput |-> TRUE ],
            [ index |-> 1, type |-> "SVideo",    isInput |-> TRUE ] >>
    ELSE << >>

\* the pins callers pass to SetVideoInput: no pin, the two inputs of camA, an
\* index with another input's type, a pin that is not an input, a pin of unknown type
PinInputs ==
    { DefaultPin,
      [ index |-> 0, type |-> "Composite", isInput |-> TRUE ],
      [ index |-> 1, type |-> "SVideo",    isInput |-> TRUE ],
      [ index |-> 1, type |-> "Composite", isInput |-> TRUE ],
      [ index |-> 1, type |-> "SVideo",    isInput |-> FALSE ],
      [ index |-> 0, type |-> "Unknown",   isInput |-> TRUE ] }

\* ( resolution, requestedFps ) as callers pass them to SetResolution
ResolutionInputs ==
    { << DefaultCap, 0 >>, << Cap( 640, 480, 24, 30, 30, 5 ), 15 >>, << Cap( 320, 240, 24, 30, 30, 5 ), 0 >> }

\* frames of up to MaxWidth x MaxHeight pixels (two packs of 16 pixels and one more),
\* rows followed by up to MaxPad bytes, MaxSeed different contents for each size
MaxWidth == 33
MaxHeight == 2
MaxPad == 1
MaxSeed == 2

\* more requests: also a format of 12 bits per pixel that camA lists
FormatRequests == ResolutionInputs \cup { << Cap( 640, 480, 12, 30, 30, 5 ), 0 >> }

\* the discovery accessors and what each returns when CollectInfo( ) fails
Accessors == { "GetCapabilities", "GetInputVideoPins", "IsCrossbarSupported" }

EmptyResult( accessor ) == IF accessor = "IsCrossbarSupported" THEN FALSE ELSE << >>

\* no accessor has returned anything for the current moniker
NothingSeen == [ a \in Accessors |-> [ valid |-> FALSE, fresh |-> FALSE, ret |-> EmptyResult( a ) ] ]

\* Start( ) was called: what the accessors returned before may be outdated
Stale( s ) == [ a \in Accessors |-> [ s[a] EXCEPT !.fresh = FALSE ] ]

\* what one step hands to the outside: the call and its return value, the
\* hardware Set calls it made (in order) and the listener calls it made
Out( op, arg, ret, hw, note ) ==
    << op, [ op |-> op, arg |-> arg, ret |-> ret, hw |-> hw, note |-> note ] >>

\* the output of the last step
last == lastCall[2]

-----------------------------------------------------------------------------
(* Helpers of RunVideo( ) *)

\* XDeviceCapabilities::operator== : all fields
CapEq( a, b ) ==
    /\ a.width = b.width /\ a.height = b.height /\ a.bits = b.bits
    /\ a.fps = b.fps /\ a.minFps = b.minFps /\ a.maxFps = b.maxFps

CapIn( c, caps ) == \E k \in 1..Len( caps ) : CapEq( caps[k], c )

\* the loop over GetStreamCaps( i ) without the test of the bit count
RECURSIVE ScanStreamCapsAnyDepth(_, _, _, _)
ScanStreamCapsAnyDepth( formats, i, capToSet, acc ) ==
    IF i > Len( formats ) THEN acc
    ELSE
      LET xcap == formats[i]
          useful == ( xcap.width # 0 )
          caps1 == IF useful /\ ~CapIn( xcap, acc.caps ) THEN Append( acc.caps, xcap ) ELSE acc.caps
          isExact == useful /\ CapEq( xcap, capToSet ) /\ ( acc.exact = 0 )
          isClose == useful /\ ~isExact /\ ( xcap.width = capToSet.width ) /\
                     ( xcap.height = capToSet.height ) /\ ( acc.close = 0 )
          next == [ caps  |-> caps1,
                    exact |-> IF isExact THEN i ELSE acc.exact,
                    close |-> IF isClose THEN i ELSE acc.close ]
      IN  CHOOSE r \in { ScanStreamCapsAnyDepth( formats, i + 1, capToSet, a ) : a \in { next } } : TRUE

\* the loop over GetStreamCaps( i ): acc.caps is capabilites, acc.exact and
\* acc.close are the positions kept in pExactMediaType and pCloseMediaType (0: none)
RECURSIVE ScanStreamCaps(_, _, _, _)
ScanStreamCaps( formats, i, capToSet, acc ) ==
    IF i > Len( formats ) THEN acc
    ELSE
      LET xcap == formats[i]
          useful == ( xcap.width # 0 ) /\ ( xcap.bits > 12 )
          caps1 == IF useful /\ ~CapIn( xcap, acc.caps ) THEN Append( acc.caps, xcap ) ELSE acc.caps
          isExact == useful /\ CapEq( xcap, capToSet ) /\ ( acc.exact = 0 )
          isClose == useful /\ ~isExact /\ ( xcap.width = capToSet.width ) /\
                     ( xcap.height = capToSet.height ) /\ ( acc.close = 0 )
          next == [ caps  |-> caps1,
                    exact |-> IF isExact THEN i ELSE acc.exact,
                    close |-> IF isClose THEN i ELSE acc.close ]
          \* ( a ranges over the one value of next: the accumulator is computed once per format )
      IN  CHOOSE r \in { ScanStreamCaps( formats, i + 1, capToSet, a ) : a \in { next } } : TRUE

\* OverrideAverageTimePerFrame: the format's frame rate becomes requestedFps unless that is 0
OverrideAverageTimePerFrame( format, requestedFps ) ==
    IF requestedFps # 0 THEN [ format EXCEPT !.fps = requestedFps ] ELSE format

NoFormat == [ width |-> 0, height |-> 0, bits |-> 0, fps |-> 0, minFps |-> 0, maxFps |-> 0 ]

\* a selection that takes the first usable format of the requested width and height
ConfigureFirstSameSize( formats, capToSet, requestedFps ) ==
    LET r == ScanStreamCaps( formats, 1, capToSet, [ caps |-> << >>, exact |-> 0, close |-> 0 ] )
        first == IF r.exact = 0 THEN r.close
                 ELSE IF r.close = 0 THEN r.exact
                 ELSE IF r.exact < r.close THEN r.exact ELSE r.close
    IN  [ caps   |-> r.caps,
          format |-> IF first # 0 THEN OverrideAverageTimePerFrame( formats[first], requestedFps )
                     ELSE NoFormat ]

\* caps: the vector returned; format: what pStreamConfig->SetFormat( ) got (NoFormat: not called)
GetPinCapabilitiesAndConfigureIt( formats, capToSet, requestedFps ) ==
    LET r == ScanStreamCaps( formats, 1, capToSet, [ caps |-> << >>, exact |-> 0, close |-> 0 ] )
    IN  [ caps   |-> r.caps,
          format |-> IF r.exact # 0 THEN OverrideAverageTimePerFrame( formats[r.exact], requestedFps )
                     ELSE IF r.close # 0 THEN OverrideAverageTimePerFrame( formats[r.close], requestedFps )
                     ELSE NoFormat ]

\* ColletCrossbarVideoInputs: every video input pin, with its index
ColletCrossbarVideoInputs( pins ) == pins

\* a routing that looks at the index of the pin only
SetCurrentCrossbarInputAnyPin( pins, routed, videoInput ) ==
    IF videoInput.index \in 0..( Len( pins ) - 1 ) THEN videoInput.index ELSE routed

\* SetCurrentCrossbarInput: the calls of pCrossbar->Route( output, input ) it makes
RouteCalls( pins, videoInput ) ==
    IF /\ videoInput.type # "Unknown"
       /\ videoInput.isInput
       /\ \E i \in 0..( Len( pins ) - 1 ) : pins[i + 1].type = videoInput.type /\ i = videoInput.index
    THEN << << "Route", videoInput.index >> >>
    ELSE << >>

\* SetCurrentCrossbarInput: the input routed afterwards (pins are indexed from 0)
SetCurrentCrossbarInput( pins, routed, videoInput ) ==
    IF /\ videoInput.type # "Unknown"
       /\ videoInput.isInput
       /\ \E i \in 0..( Len( pins ) - 1 ) : pins[i + 1].type = videoInput.type /\ i = videoInput.index
    THEN videoInput.index
    ELSE routed

\* GetCurrentCrossbarInput: XDevicePinInfo( index, type ) of the routed input
GetCurrentCrossbarInput( pins, routed ) ==
    IF routed \in 0..( Len( pins ) - 1 )
    THEN [ index |-> routed, type |-> pins[routed + 1].type, isInput |-> TRUE ]
    ELSE DefaultPin

\* the keys of a std::map in iteration order (ascending)
RECURSIVE KeysInOrder(_)
KeysInOrder( keys ) ==
    IF keys = {} THEN << >>
    ELSE LET k == CHOOSE x \in keys : \A y \in keys : x <= y
         IN  << k >> \o KeysInOrder( keys \ { k } )

\* a loop that leaves after its first turn
ApplyFirst( domain, m ) ==
    LET ks == KeysInOrder( DOMAIN m )
    IN  [ i \in 1..( IF Len( ks ) > 0 THEN 1 ELSE 0 ) |-> << domain, ks[i], m[ks[i]][1], m[ks[i]][2] >> ]

\* the hardware Set calls of `for ( auto property : map ) Set...Property( ... )`
ApplyAll( domain, m ) ==
    LET ks == KeysInOrder( DOMAIN m )
    IN  [ i \in 1..Len( ks ) |-> << domain, ks[i], m[ks[i]][1], m[ks[i]][2] >> ]

\* NotifyError( message, fatal ): OnError reaches the listener, if there is one
NotifyError( message, fatal ) ==
    IF Listener # NoListener
    THEN << << Listener, "OnError", ( IF fatal THEN "Fatal: " ELSE "" ) \o message >> >>
    ELSE << >>

\* XThread::IsRunning of BackgroundThread
IsRunning == pc # None

\* the capture graph runs from pMediaControl->Run( ) to pMediaControl->Stop( )
GraphRunning == pc \in { "enterVideo", "nfVideoCfg", "enterCamera", "nfCameraCfg", "loop", "nfLost", "leave" }

BgOut( note ) == Out( "RunVideo", << >>, "void", << >>, note )

\* what one pass of the do-loop asks of the capture graph service: the attempt
\* itself and, when the source filter was bound, the format handed to SetFormat( )
BuildCalls( outcome, moniker, capToSet, requestedFps ) ==
    LET format == GetPinCapabilitiesAndConfigureIt( DeviceFormats( moniker ), capToSet, requestedFps ).format
    IN  << << "build", outcome >> >> \o
        ( IF outcome = "ok" /\ format # NoFormat THEN << << "SetFormat", format >> >> ELSE << >> )

\* the outcomes of one pass of the do-loop up to InfoCollectedEvent.Signal( )
BuildOutcomes == { "basicInitializationFailed", "noSourceFilter", "ok" }

-----------------------------------------------------------------------------
(* The object after XLocalVideoDevice::Create( deviceMoniker ) *)

Init ==
    /\ DeviceMoniker \in Monikers
    /\ Resolution = DefaultCap
    /\ RequestedFps = 0
    /\ VideoInput = DefaultPin
    /\ NeedToSetVideoInput = FALSE
    /\ Capabilities = << >>
    /\ VideoPins = << >>
    /\ IsCrossbarAvailable = FALSE
    /\ InfoCollectedEvent = FALSE
    /\ Listener = NoListener
    /\ ExitEvent = FALSE
    /\ FramesCounter = 0
    /\ DeviceIsRunningEvent = FALSE
    /\ DeviceIsRunning = FALSE
    /\ VideoProcAmp = FALSE
    /\ CameraControl = FALSE
    /\ VideoPropertiesToSet = EmptyMap
    /\ CameraPropertiesToSet = EmptyMap
    /\ pc = None
    /\ RunningSyncOwner = None
    /\ SyncOwner = None
    /\ waiter = None
    /\ crossbarInput = 0
    /\ seen = NothingSeen
    /\ lastCall = Out( "Create", << >>, "void", << >>, << >> )
    /\ mWidth = 0
    /\ mHeight = 0
    /\ mSSSE3supported = FALSE
    /\ sample = << << >>, 0 >>
    /\ mImage = << >>

-----------------------------------------------------------------------------
(* RunVideo( true ) in the background thread *)

\* One pass of the do-loop up to InfoCollectedEvent.Signal( ): the graph objects
\* are created, the source filter is bound, crossbar pins and capabilities are cached.
RunVideoBuild ==
    /\ pc = "build"
    /\ \E outcome \in BuildOutcomes :
      /\ CASE outcome = "basicInitializationFailed" ->
                /\ pc' = "nfFatal"
                /\ UNCHANGED << NeedToSetVideoInput, cacheVars, InfoCollectedEvent >>
           [] outcome = "noSourceFilter" ->
                /\ NeedToSetVideoInput' = TRUE
                /\ pc' = "nfNoDevice"
                /\ UNCHANGED << cacheVars, InfoCollectedEvent >>
           [] outcome = "ok" ->
                /\ NeedToSetVideoInput' = TRUE
                /\ IF DeviceCrossbarInputs( DeviceMoniker ) # << >>
                   THEN /\ VideoPins' = ColletCrossbarVideoInputs( DeviceCrossbarInputs( DeviceMoniker ) )
                        /\ IsCrossbarAvailable' = TRUE
                   ELSE UNCHANGED << VideoPins, IsCrossbarAvailable >>
                /\ Capabilities' = GetPinCapabilitiesAndConfigureIt(
                                       DeviceFormats( DeviceMoniker ), Resolution, RequestedFps ).caps
                /\ InfoCollectedEvent' = TRUE
                /\ pc' = "prepare"
      /\ lastCall' = Out( "RunVideo", << >>, "void",
                      BuildCalls( outcome, DeviceMoniker, Resolution, RequestedFps ), << >> )
    /\ UNCHANGED << DeviceMoniker, Resolution, RequestedFps, VideoInput, Listener, ExitEvent,
                    FramesCounter, runVars, propVars, lockVars, waiter, crossbarInput, seen >>
    /\ UNCHANGED grabberVars

\* The NotifyError( ) calls of RunVideo( ): where RunVideo( ) goes on afterwards, and
\* whether the scoped lock of RunningSync ends there.
Site( message, fatal, next, unlocks ) ==
    [ message |-> message, fatal |-> fatal, next |-> next, unlocks |-> unlocks ]

\* the reports of RunVideo( ) with a fatal failure that goes to the back-off like the others
NotifySitesFatalRetries ==
    ( "nfNoDevice"  :> Site( "Did not find video device. Unplugged?", FALSE, "backoff", FALSE ) ) @@
    ( "nfPrepare"   :> Site( "Failed preparing device to run.", FALSE, "backoff", FALSE ) ) @@
    ( "nfBusy"      :> Site( "Failed runnning device. Might be busy.", FALSE, "backoff", FALSE ) ) @@
    ( "nfVideoCfg"  :> Site( "Failed applying video configuration", FALSE, "enterCamera", FALSE ) ) @@
    ( "nfCameraCfg" :> Site( "Failed applying camera configuration", FALSE, "loop", TRUE ) ) @@
    ( "nfLost"      :> Site( "Device was lost. Unplugged?", FALSE, "leave", FALSE ) ) @@
    ( "nfFatal"     :> Site( "Failed DirectShow initialization", FALSE, "backoff", FALSE ) )

\* the sites of NotifyError where a failed video configuration ends the streaming
NotifySitesConfigAborts ==
    ( "nfNoDevice"  :> Site( "Did not find video device. Unplugged?", FALSE, "backoff", FALSE ) ) @@
    ( "nfPrepare"   :> Site( "Failed preparing device to run.", FALSE, "backoff", FALSE ) ) @@
    ( "nfBusy"      :> Site( "Failed runnning device. Might be busy.", FALSE, "backoff", FALSE ) ) @@
    ( "nfVideoCfg"  :> Site( "Failed applying video configuration", FALSE, "leave", TRUE ) ) @@
    ( "nfCameraCfg" :> Site( "Failed applying camera configuration", FALSE, "loop", TRUE ) ) @@
    ( "nfLost"      :> Site( "Device was lost. Unplugged?", FALSE, "leave", FALSE ) ) @@
    ( "nfFatal"     :> Site( "Failed DirectShow initialization", TRUE, "finish", FALSE ) )

NotifySites ==
    ( "nfNoDevice"  :> Site( "Did not find video device. Unplugged?", FALSE, "backoff", FALSE ) ) @@
    ( "nfPrepare"   :> Site( "Failed preparing device to run.", FALSE, "backoff", FALSE ) ) @@
    ( "nfBusy"      :> Site( "Failed runnning device. Might be busy.", FALSE, "backoff", FALSE ) ) @@
    ( "nfVideoCfg"  :> Site( "Failed applying video configuration", FALSE, "enterCamera", FALSE ) ) @@
    ( "nfCameraCfg" :> Site( "Failed applying camera configuration", FALSE, "loop", TRUE ) ) @@
    ( "nfLost"      :> Site( "Device was lost. Unplugged?", FALSE, "leave", FALSE ) ) @@
    ( "nfFatal"     :> Site( "Failed DirectShow initialization", TRUE, "finish", FALSE ) )

\* a NotifyError( ) that does not wait for Sync
RunVideoNotifyErrorWithoutSync ==
    /\ pc \in DOMAIN NotifySites
    /\ pc' = NotifySites[pc].next
    /\ RunningSyncOwner' = IF NotifySites[pc].unlocks THEN None ELSE RunningSyncOwner
    /\ lastCall' = BgOut( NotifyError( NotifySites[pc].message, NotifySites[pc].fatal ) )
    /\ UNCHANGED << configVars, cacheVars, InfoCollectedEvent, Listener, ExitEvent, FramesCounter,
                    runVars, propVars, SyncOwner, waiter, crossbarInput, seen >>
    /\ UNCHANGED grabberVars

\* RunVideo( ) calls NotifyError( ): it takes Sync, tells the listener and goes on.
RunVideoNotifyError ==
    /\ pc \in DOMAIN NotifySites
    /\ SyncOwner = None
    /\ pc' = NotifySites[pc].next
    /\ RunningSyncOwner' = IF NotifySites[pc].unlocks THEN None ELSE RunningSyncOwner
    /\ lastCall' = BgOut( NotifyError( NotifySites[pc].message, NotifySites[pc].fatal ) )
    /\ UNCHANGED << configVars, cacheVars, InfoCollectedEvent, Listener, ExitEvent, FramesCounter,
                    runVars, propVars, SyncOwner, waiter, crossbarInput, seen >>
    /\ UNCHANGED grabberVars

\* From SetMediaType( ) to pMediaControl->Run( ).
RunVideoPrepare ==
    /\ pc = "prepare"
    /\ \E outcome \in { "notPrepared", "runFailed", "ok" } :
         pc' = CASE outcome = "notPrepared" -> "nfPrepare"
                 [] outcome = "runFailed"   -> "nfBusy"
                 [] outcome = "ok"          -> "enterVideo"
    /\ lastCall' = BgOut( << >> )
    /\ UNCHANGED << configVars, cacheVars, InfoCollectedEvent, Listener, ExitEvent, FramesCounter,
                    runVars, propVars, lockVars, waiter, crossbarInput, seen >>
    /\ UNCHANGED grabberVars

\* the entry into streaming without the scoped lock of RunningSync
RunVideoEnterVideoUnlocked ==
    /\ pc = "enterVideo"
    /\ RunningSyncOwner = None
    /\ RunningSyncOwner' = None
    /\ DeviceIsRunning' = TRUE
    /\ DeviceIsRunningEvent' = TRUE
    /\ \E offered \in BOOLEAN :
         /\ VideoProcAmp' = offered
         /\ IF offered
            THEN \E result \in [ DOMAIN VideoPropertiesToSet -> BOOLEAN ] :
                   LET configOK == \A p \in DOMAIN VideoPropertiesToSet : result[p]
                   IN  /\ lastCall' = Out( "RunVideo", << >>, "void", ApplyAll( "video", VideoPropertiesToSet ), << >> )
                       /\ VideoPropertiesToSet' = EmptyMap
                       /\ pc' = IF configOK THEN "enterCamera" ELSE "nfVideoCfg"
            ELSE /\ lastCall' = BgOut( << >> )
                 /\ pc' = "enterCamera"
                 /\ UNCHANGED VideoPropertiesToSet
    /\ UNCHANGED << configVars, cacheVars, InfoCollectedEvent, Listener, ExitEvent, FramesCounter,
                    CameraControl, CameraPropertiesToSet, SyncOwner, waiter, crossbarInput, seen >>
    /\ UNCHANGED grabberVars

\* XScopedLock lock( &RunningSync ); DeviceIsRunning = true; DeviceIsRunningEvent.Signal( );
\* QueryInterface( IID_IAMVideoProcAmp ) and the deferred video properties.
RunVideoEnterVideo ==
    /\ pc = "enterVideo"
    /\ RunningSyncOwner = None
    /\ RunningSyncOwner' = "RunVideo"
    /\ DeviceIsRunning' = TRUE
    /\ DeviceIsRunningEvent' = TRUE
    /\ \E offered \in BOOLEAN :
         /\ VideoProcAmp' = offered
         /\ IF offered
            THEN \E result \in [ DOMAIN VideoPropertiesToSet -> BOOLEAN ] :
                   LET configOK == \A p \in DOMAIN VideoPropertiesToSet : result[p]
                   IN  /\ lastCall' = Out( "RunVideo", << >>, "void", ApplyAll( "video", VideoPropertiesToSet ), << >> )
                       /\ VideoPropertiesToSet' = EmptyMap
                       /\ pc' = IF configOK THEN "enterCamera" ELSE "nfVideoCfg"
            ELSE /\ lastCall' = BgOut( << >> )
                 /\ pc' = "enterCamera"
                 /\ UNCHANGED VideoPropertiesToSet
    /\ UNCHANGED << configVars, cacheVars, InfoCollectedEvent, Listener, ExitEvent, FramesCounter,
                    CameraControl, CameraPropertiesToSet, SyncOwner, waiter, crossbarInput, seen >>
    /\ UNCHANGED grabberVars

\* QueryInterface( IID_IAMCameraControl ) and the deferred camera properties;
\* the scoped lock ends unless NotifyError( ) is still to be called inside it.
RunVideoEnterCamera ==
    /\ pc = "enterCamera"
    /\ \E offered \in BOOLEAN :
         /\ CameraControl' = offered
         /\ IF offered
            THEN \E result \in [ DOMAIN CameraPropertiesToSet -> BOOLEAN ] :
                   LET configOK == \A p \in DOMAIN CameraPropertiesToSet : result[p]
                   IN  /\ lastCall' = Out( "RunVideo", << >>, "void", ApplyAll( "camera", CameraPropertiesToSet ), << >> )
                       /\ CameraPropertiesToSet' = EmptyMap
                       /\ pc' = IF configOK THEN "loop" ELSE "nfCameraCfg"
                       /\ RunningSyncOwner' = IF configOK THEN None ELSE RunningSyncOwner
            ELSE /\ lastCall' = BgOut( << >> )
                 /\ pc' = "loop"
                 /\ RunningSyncOwner' = None
                 /\ UNCHANGED CameraPropertiesToSet
    /\ UNCHANGED << configVars, cacheVars, InfoCollectedEvent, Listener, ExitEvent, FramesCounter,
                    DeviceIsRunningEvent, DeviceIsRunning, VideoProcAmp, VideoPropertiesToSet,
                    SyncOwner, waiter, crossbarInput, seen >>
    /\ UNCHANGED grabberVars

\* a loop that looks at the video input also in the turn that leaves it
RunVideoLoopDrains ==
    /\ pc = "loop"
    /\ IF ExitEvent
       THEN pc' = "leave"
       ELSE \E deviceLost \in BOOLEAN : pc' = IF deviceLost THEN "nfLost" ELSE "loop"
    /\ NeedToSetVideoInput' = FALSE
    /\ IF NeedToSetVideoInput /\ IsCrossbarAvailable
       THEN LET pins   == DeviceCrossbarInputs( DeviceMoniker )
                routed == SetCurrentCrossbarInput( pins, crossbarInput, VideoInput )
            IN  /\ crossbarInput' = routed
                /\ VideoInput' = GetCurrentCrossbarInput( pins, routed )
       ELSE UNCHANGED << VideoInput, crossbarInput >>
    /\ LET routing == NeedToSetVideoInput /\ IsCrossbarAvailable
       IN  lastCall' = Out( "RunVideo", IF routing THEN << VideoInput >> ELSE << >>, "void",
                            IF routing THEN RouteCalls( DeviceCrossbarInputs( DeviceMoniker ), VideoInput )
                            ELSE << >>,
                            << >> )
    /\ UNCHANGED << DeviceMoniker, Resolution, RequestedFps, cacheVars, InfoCollectedEvent, Listener,
                    ExitEvent, FramesCounter, runVars, propVars, lockVars, waiter, seen >>
    /\ UNCHANGED grabberVars

\* One turn of `while ( !ExitEvent.Wait( 100 ) )`: the media event, then the video input.
RunVideoLoop ==
    /\ pc = "loop"
    /\ IF ExitEvent
       THEN /\ pc' = "leave"
            /\ UNCHANGED << VideoInput, NeedToSetVideoInput, crossbarInput >>
       ELSE \E deviceLost \in BOOLEAN :
              IF deviceLost
              THEN /\ pc' = "nfLost"
                   /\ UNCHANGED << VideoInput, NeedToSetVideoInput, crossbarInput >>
              ELSE /\ pc' = "loop"
                   /\ NeedToSetVideoInput' = FALSE
                   /\ IF NeedToSetVideoInput /\ IsCrossbarAvailable
                      THEN LET pins   == DeviceCrossbarInputs( DeviceMoniker )
                               routed == SetCurrentCrossbarInput( pins, crossbarInput, VideoInput )
                           IN  /\ crossbarInput' = routed
                               /\ VideoInput' = GetCurrentCrossbarInput( pins, routed )
                      ELSE UNCHANGED << VideoInput, crossbarInput >>
    /\ LET routing == ~ExitEvent /\ pc' = "loop" /\ NeedToSetVideoInput /\ IsCrossbarAvailable
       IN  \* arg: the pin handed to SetCurrentCrossbarInput; hw: the Route( ) calls made
           lastCall' = Out( "RunVideo", IF routing THEN << VideoInput >> ELSE << >>, "void",
                            IF routing THEN RouteCalls( DeviceCrossbarInputs( DeviceMoniker ), VideoInput )
                            ELSE << >>,
                            << >> )
    /\ UNCHANGED << DeviceMoniker, Resolution, RequestedFps, cacheVars, InfoCollectedEvent, Listener,
                    ExitEvent, FramesCounter, runVars, propVars, lockVars, waiter, seen >>
    /\ UNCHANGED grabberVars

\* leaving the loop without DeviceIsRunningEvent.Reset( )
RunVideoLeaveKeepsEvent ==
    /\ pc = "leave"
    /\ RunningSyncOwner = None
    /\ VideoProcAmp' = FALSE
    /\ CameraControl' = FALSE
    /\ DeviceIsRunning' = FALSE
    /\ pc' = "backoff"
    /\ lastCall' = Out( "RunVideo", << >>, "void", << << "Stop" >> >>, << >> )
    /\ UNCHANGED << configVars, cacheVars, InfoCollectedEvent, Listener, ExitEvent, FramesCounter,
                    DeviceIsRunningEvent, propVars, lockVars, waiter, crossbarInput, seen >>
    /\ UNCHANGED grabberVars

\* leaving the loop without RELEASE_COM of the two interfaces
RunVideoLeaveKeepsHandles ==
    /\ pc = "leave"
    /\ RunningSyncOwner = None
    /\ DeviceIsRunning' = FALSE
    /\ DeviceIsRunningEvent' = FALSE
    /\ pc' = "backoff"
    /\ lastCall' = Out( "RunVideo", << >>, "void", << << "Stop" >> >>, << >> )
    /\ UNCHANGED << configVars, cacheVars, InfoCollectedEvent, Listener, ExitEvent, FramesCounter,
                    VideoProcAmp, CameraControl, propVars, lockVars, waiter, crossbarInput, seen >>
    /\ UNCHANGED grabberVars

\* a teardown that resets the event and forgets the flag
RunVideoLeaveKeepsFlag ==
    /\ pc = "leave"
    /\ RunningSyncOwner = None
    /\ VideoProcAmp' = FALSE
    /\ CameraControl' = FALSE
    /\ DeviceIsRunningEvent' = FALSE
    /\ pc' = "backoff"
    /\ lastCall' = Out( "RunVideo", << >>, "void", << << "Stop" >> >>, << >> )
    /\ UNCHANGED << configVars, cacheVars, InfoCollectedEvent, Listener, ExitEvent, FramesCounter,
                    DeviceIsRunning, propVars, lockVars, waiter, crossbarInput, seen >>
    /\ UNCHANGED grabberVars

\* After the loop: under RunningSync the handles are released and the running
\* flag and event are cleared; then pMediaControl->Stop( ) (hw: that call).
RunVideoLeave ==
    /\ pc = "leave"
    /\ RunningSyncOwner = None
    /\ VideoProcAmp' = FALSE
    /\ CameraControl' = FALSE
    /\ DeviceIsRunning' = FALSE
    /\ DeviceIsRunningEvent' = FALSE
    /\ pc' = "backoff"
    /\ lastCall' = Out( "RunVideo", << >>, "void", << << "Stop" >> >>, << >> )
    /\ UNCHANGED << configVars, cacheVars, InfoCollectedEvent, Listener, ExitEvent, FramesCounter,
                    propVars, lockVars, waiter, crossbarInput, seen >>
    /\ UNCHANGED grabberVars

\* a loop that ends after its first pass whether or not stop was requested
RunVideoBackoffEnds ==
    /\ pc = "backoff"
    /\ pc' = "finish"
    /\ lastCall' = BgOut( << >> )
    /\ UNCHANGED << configVars, cacheVars, InfoCollectedEvent, Listener, ExitEvent, FramesCounter,
                    runVars, propVars, lockVars, waiter, crossbarInput, seen >>
    /\ UNCHANGED grabberVars

\* a back-off that starts the next pass whether or not stop was requested
RunVideoBackoffRetries ==
    /\ pc = "backoff"
    /\ pc' = "build"
    /\ lastCall' = BgOut( << >> )
    /\ UNCHANGED << configVars, cacheVars, InfoCollectedEvent, Listener, ExitEvent, FramesCounter,
                    runVars, propVars, lockVars, waiter, crossbarInput, seen >>
    /\ UNCHANGED grabberVars

\* while ( ( run ) && ( !ExitEvent.Wait( 1000 ) ) )
RunVideoBackoff ==
    /\ pc = "backoff"
    /\ pc' = IF ExitEvent THEN "finish" ELSE "build"
    /\ lastCall' = BgOut( << >> )
    /\ UNCHANGED << configVars, cacheVars, InfoCollectedEvent, Listener, ExitEvent, FramesCounter,
                    runVars, propVars, lockVars, waiter, crossbarInput, seen >>
    /\ UNCHANGED grabberVars

\* InfoCollectedEvent.Signal( ) after the do-loop; RunVideo( ) and the thread end.
RunVideoFinish ==
    /\ pc = "finish"
    /\ InfoCollectedEvent' = TRUE
    /\ pc' = None
    /\ lastCall' = BgOut( << >> )
    /\ UNCHANGED << configVars, cacheVars, Listener, ExitEvent, FramesCounter,
                    runVars, propVars, lockVars, waiter, crossbarInput, seen >>
    /\ UNCHANGED grabberVars

RunVideo ==
    \/ RunVideoBuild
    \/ RunVideoNotifyError
    \/ RunVideoPrepare
    \/ RunVideoEnterVideo
    \/ RunVideoEnterCamera
    \/ RunVideoLoop
    \/ RunVideoLeave
    \/ RunVideoBackoff
    \/ RunVideoFinish

-----------------------------------------------------------------------------
(* SampleGrabber::BufferCB: from the buffer to the image *)

\* where a pixel of the image keeps its red, green and blue byte
RedIndex   == 0
GreenIndex == 1
BlueIndex  == 2

\* p[o]: the byte at offset o of a buffer or a row (offsets start at 0)
At( p, o ) == p[o + 1]

\* pBuffer + y * srcStride: the bytes from there on
RowFrom( pBuffer, y, srcStride ) ==
    [ o \in 1..( Len( pBuffer ) - y * srcStride ) |-> pBuffer[y * srcStride + o] ]

\* memcpy( dst, src, toCopy ): the row as it is (the PIXEL_FORMAT_BGRA build)
CopyPixels( srcRow, from, count ) ==
    [ o \in 1..( 3 * count ) |-> At( srcRow, 3 * from + o - 1 ) ]

\* for ( x ...; dstRow += 3, srcRow += 3 ): dstRow[BlueIndex] = srcRow[0];
\* dstRow[GreenIndex] = srcRow[1]; dstRow[RedIndex] = srcRow[2], for count
\* pixels starting with pixel from of the row
SwapPixels( srcRow, from, count ) ==
    LET written == << BlueIndex, GreenIndex, RedIndex >>
        read( c ) == CHOOSE k \in 0..2 : written[k + 1] = c
    IN  [ o \in 1..( 3 * count ) |->
            At( srcRow, 3 * ( from + ( o - 1 ) \div 3 ) + read( ( o - 1 ) % 3 ) ) ]

\* bitwise or of two bytes
RECURSIVE BitOr(_, _)
BitOr( a, b ) ==
    IF a = 0 THEN b
    ELSE IF b = 0 THEN a
    ELSE ( IF ( a % 2 = 1 ) \/ ( b % 2 = 1 ) THEN 1 ELSE 0 ) + 2 * BitOr( a \div 2, b \div 2 )

\* _mm_set_epi8( e15, ..., e0 ): the arguments name the bytes from the highest down
mm_set_epi8( e ) == [ i \in 0..15 |-> e[16 - i] ]

\* _mm_loadu_si128( srcRow + offset )
mm_loadu_si128( srcRow, offset ) == [ i \in 0..15 |-> At( srcRow, offset + i ) ]

\* _mm_shuffle_epi8( a, b ): byte i is 0 if b[i] has its top bit set, else a[b[i] & 15]
mm_shuffle_epi8( a, b ) == [ i \in 0..15 |-> IF b[i] < 0 THEN 0 ELSE a[b[i] % 16] ]

\* _mm_or_si128( a, b )
mm_or_si128( a, b ) == [ i \in 0..15 |-> BitOr( a[i], b[i] ) ]

\* a table for the middle chunk that leaves its bytes where they are
keepIndeces_1      == mm_set_epi8( << 15, -1, 13, 12, 11, 10,  9,  8,  7,  6,  5,  4,  3,  2, -1,  0 >> )

swapIndeces_0      == mm_set_epi8( << -1, 12, 13, 14,  9, 10, 11,  6,  7,  8,  3,  4,  5,  0,  1,  2 >> )
swapIndeces_1      == mm_set_epi8( << 15, -1, 11, 12, 13,  8,  9, 10,  5,  6,  7,  2,  3,  4, -1,  0 >> )
swapIndeces_2      == mm_set_epi8( << 13, 14, 15, 10, 11, 12,  7,  8,  9,  4,  5,  6,  1,  2,  3, -1 >> )
chunk0IndecesFrom1 == mm_set_epi8( <<  1, -1, -1, -1, -1, -1, -1, -1, -1, -1, -1, -1, -1, -1, -1, -1 >> )
chunk2IndecesFrom1 == mm_set_epi8( << -1, -1, -1, -1, -1, -1, -1, -1, -1, -1, -1, -1, -1, -1, -1, 14 >> )
chunk1IndecesFrom0 == mm_set_epi8( << -1, -1, -1, -1, -1, -1, -1, -1, -1, -1, -1, -1, -1, -1, 15, -1 >> )
chunk1IndecesFrom2 == mm_set_epi8( << -1,  0, -1, -1, -1, -1, -1, -1, -1, -1, -1, -1, -1, -1, -1, -1 >> )

\* _mm_storeu_si128: the 16 bytes in the order of their addresses
mm_storeu_si128( a ) == [ o \in 1..16 |-> a[o - 1] ]

\* the body of `for ( x < packs ...; srcRow += 48, dstRow += 48 )`: the 48 bytes written
ShufflePack( srcRow, x ) ==
    LET chunk0 == mm_loadu_si128( srcRow, 48 * x )
        chunk1 == mm_loadu_si128( srcRow, 48 * x + 16 )
        chunk2 == mm_loadu_si128( srcRow, 48 * x + 32 )
    IN  mm_storeu_si128( mm_or_si128( mm_shuffle_epi8( chunk0, swapIndeces_0 ),
                                      mm_shuffle_epi8( chunk1, chunk0IndecesFrom1 ) ) )
        \o
        mm_storeu_si128( mm_or_si128( mm_or_si128( mm_shuffle_epi8( chunk1, swapIndeces_1 ),
                                                   mm_shuffle_epi8( chunk0, chunk1IndecesFrom0 ) ),
                                      mm_shuffle_epi8( chunk2, chunk1IndecesFrom2 ) ) )
        \o
        mm_storeu_si128( mm_or_si128( mm_shuffle_epi8( chunk2, swapIndeces_2 ),
                                      mm_shuffle_epi8( chunk1, chunk2IndecesFrom1 ) ) )

RECURSIVE ShufflePacks(_, _, _)
ShufflePacks( srcRow, x, packs ) ==
    IF x >= packs THEN << >>
    ELSE ShufflePack( srcRow, x ) \o ShufflePacks( srcRow, x + 1, packs )

\* a row that is copied without exchanging the channels
CopyRow( srcRow, width ) == CopyPixels( srcRow, 0, width )

\* one row of the branch `if ( !mSSSE3supported )`
ScalarRow( srcRow, width ) == SwapPixels( srcRow, 0, width )

\* one row of the other branch: the packs of 16 pixels, then the remaining pixels
VectorRow( srcRow, width ) ==
    LET packs == width \div 16
        rem   == width % 16
    IN  ShufflePacks( srcRow, 0, packs ) \o SwapPixels( srcRow, 16 * packs, rem )

\* the image after the loops over y: dst starts at the last row of the image and
\* row y of the buffer goes to dst - y * dstStride, so the image's row r (from
\* the top) is made of row height - 1 - r of the buffer
ConvertBuffer( pBuffer, bufferLen, width, height, ssse3 ) ==
    LET srcStride == bufferLen \div height
    IN  [ r \in 1..height |->
            LET srcRow == RowFrom( pBuffer, height - r, srcStride )
            IN  IF ~ssse3 THEN ScalarRow( srcRow, width ) ELSE VectorRow( srcRow, width ) ]

\* the buffers a device delivers for a frame of width x height: rows of 3 * width
\* bytes and pad more, contents that differ from byte to byte
SampleBuffer( width, height, pad, seed ) ==
    [ o \in 1..( ( 3 * width + pad ) * height ) |-> ( ( 85 + 4 * seed ) * o + 7 * ( o \div 3 ) + seed ) % 256 ]

\* The lines of BufferCB that fill mImage, for a listener and a buffer that are there.
BufferCBImage ==
    /\ GraphRunning
    /\ SyncOwner = None
    /\ mWidth # 0
    /\ mHeight # 0
    /\ ( Listener # NoListener ) /\ ( sample[1] # << >> ) /\ ( sample[2] # 0 )
    /\ mImage' = ConvertBuffer( sample[1], sample[2], mWidth, mHeight, mSSSE3supported )
    /\ UNCHANGED << configVars, cacheVars, InfoCollectedEvent, Listener, ExitEvent, FramesCounter,
                    runVars, propVars, pc, lockVars, waiter, crossbarInput, seen, lastCall,
                    mWidth, mHeight, mSSSE3supported, sample >>

\* A streaming source (camB, listener set, default format) whose grabber was given
\* the size of the frames and gets a buffer of that size.
InitConvert ==
    /\ DeviceMoniker = "camB"
    /\ Resolution = DefaultCap
    /\ RequestedFps = 0
    /\ VideoInput = DefaultPin
    /\ NeedToSetVideoInput = FALSE
    /\ Capabilities = GetPinCapabilitiesAndConfigureIt( DeviceFormats( "camB" ), DefaultCap, 0 ).caps
    /\ VideoPins = << >>
    /\ IsCrossbarAvailable = FALSE
    /\ InfoCollectedEvent = TRUE
    /\ Listener \in Listeners
    /\ ExitEvent = FALSE
    /\ FramesCounter = 0
    /\ DeviceIsRunningEvent = TRUE
    /\ DeviceIsRunning = TRUE
    /\ VideoProcAmp = TRUE
    /\ CameraControl = TRUE
    /\ VideoPropertiesToSet = EmptyMap
    /\ CameraPropertiesToSet = EmptyMap
    /\ pc = "loop"
    /\ RunningSyncOwner = None
    /\ SyncOwner = None
    /\ waiter = None
    /\ crossbarInput = 0
    /\ seen = NothingSeen
    /\ lastCall = BgOut( << >> )
    /\ mWidth \in 1..MaxWidth
    /\ mHeight \in 1..MaxHeight
    /\ mSSSE3supported \in BOOLEAN
    /\ \E pad \in 0..MaxPad, seed \in 1..MaxSeed :
         LET pBuffer == SampleBuffer( mWidth, mHeight, pad, seed )
         IN  sample = << pBuffer, Len( pBuffer ) >>
    /\ mImage = << >>

-----------------------------------------------------------------------------
(* SampleGrabber::BufferCB in the graph's streaming thread *)

\* a callback that counts the buffer whether or not ExitEvent is signaled
BufferCBCountsAfterStop( bufferValid ) ==
    /\ GraphRunning
    /\ SyncOwner = None
    /\ FramesCounter < MaxFrames
    /\ FramesCounter' = FramesCounter + 1
    /\ lastCall' = Out( "BufferCB", << bufferValid >>, 0, << >>,
                    IF ( Listener # NoListener ) /\ bufferValid
                    THEN << << Listener, "OnNewImage", "" >> >> ELSE << >> )
    /\ UNCHANGED << configVars, cacheVars, InfoCollectedEvent, Listener, ExitEvent,
                    runVars, propVars, pc, lockVars, waiter, crossbarInput, seen >>
    /\ UNCHANGED grabberVars

BufferCB( bufferValid ) ==
    /\ GraphRunning
    /\ SyncOwner = None
    /\ ExitEvent \/ FramesCounter < MaxFrames
    /\ FramesCounter' = IF ~ExitEvent THEN FramesCounter + 1 ELSE FramesCounter
    /\ lastCall' = Out( "BufferCB", << bufferValid >>, 0, << >>,
                    IF ( Listener # NoListener ) /\ bufferValid
                    THEN << << Listener, "OnNewImage", "" >> >> ELSE << >> )
    /\ UNCHANGED << configVars, cacheVars, InfoCollectedEvent, Listener, ExitEvent,
                    runVars, propVars, pc, lockVars, waiter, crossbarInput, seen >>
    /\ UNCHANGED grabberVars

-----------------------------------------------------------------------------
(* The facade: lifecycle *)

\* Start( ) without the check of the moniker
StartWithoutMonikerCheck ==
    /\ SyncOwner = None
    /\ IF IsRunning
       THEN /\ lastCall' = Out( "Start", << >>, "SuccessCode", << >>, << >> )
            /\ UNCHANGED << FramesCounter, ExitEvent, InfoCollectedEvent, pc >>
       ELSE /\ FramesCounter' = 0
            /\ ExitEvent' = FALSE
            /\ InfoCollectedEvent' = FALSE
            /\ \E created \in BOOLEAN :
                 /\ pc' = IF created THEN "build" ELSE None
                 /\ lastCall' = Out( "Start", << >>, IF created THEN "SuccessCode" ELSE "ErrorFailed", << >>, << >> )
    /\ seen' = Stale( seen )
    /\ UNCHANGED << configVars, cacheVars, Listener, runVars, propVars, lockVars, waiter, crossbarInput >>
    /\ UNCHANGED grabberVars

\* Start( ) without the check of IsRunning( )
StartWithoutRunningCheck ==
    /\ SyncOwner = None
    /\ IF DeviceMoniker = ""
       THEN /\ lastCall' = Out( "Start", << >>, "ErrorInvalidConfiguration", << >>, << >> )
            /\ UNCHANGED << FramesCounter, ExitEvent, InfoCollectedEvent, pc >>
       ELSE /\ FramesCounter' = 0
            /\ ExitEvent' = FALSE
            /\ InfoCollectedEvent' = FALSE
            /\ \E created \in BOOLEAN :
                 /\ pc' = IF created THEN "build" ELSE None
                 /\ lastCall' = Out( "Start", << >>, IF created THEN "SuccessCode" ELSE "ErrorFailed", << >>, << >> )
    /\ seen' = Stale( seen )
    /\ UNCHANGED << configVars, cacheVars, Listener, runVars, propVars, lockVars, waiter, crossbarInput >>
    /\ UNCHANGED grabberVars

Start ==
    /\ SyncOwner = None
    /\ IF DeviceMoniker = ""
       THEN /\ lastCall' = Out( "Start", << >>, "ErrorInvalidConfiguration", << >>, << >> )
            /\ UNCHANGED << FramesCounter, ExitEvent, InfoCollectedEvent, pc >>
       ELSE IF IsRunning
       THEN /\ lastCall' = Out( "Start", << >>, "SuccessCode", << >>, << >> )
            /\ UNCHANGED << FramesCounter, ExitEvent, InfoCollectedEvent, pc >>
       ELSE /\ FramesCounter' = 0
            /\ ExitEvent' = FALSE
            /\ InfoCollectedEvent' = FALSE
            /\ \E created \in BOOLEAN :
                 /\ pc' = IF created THEN "build" ELSE None
                 /\ lastCall' = Out( "Start", << >>, IF created THEN "SuccessCode" ELSE "ErrorFailed", << >>, << >> )
    /\ seen' = Stale( seen )
    /\ UNCHANGED << configVars, cacheVars, Listener, runVars, propVars, lockVars, waiter, crossbarInput >>
    /\ UNCHANGED grabberVars

SignalToStop ==
    /\ SyncOwner = None
    /\ ExitEvent' = IF IsRunning THEN TRUE ELSE ExitEvent
    /\ lastCall' = Out( "SignalToStop", << >>, "void", << >>, << >> )
    /\ UNCHANGED << configVars, cacheVars, InfoCollectedEvent, Listener, FramesCounter,
                    runVars, propVars, pc, lockVars, waiter, crossbarInput, seen >>
    /\ UNCHANGED grabberVars

\* WaitForStop( ) up to BackgroundThread.Join( ), which returns at once when no thread runs
WaitForStop ==
    /\ waiter = None
    /\ SyncOwner = None
    /\ ExitEvent' = IF IsRunning THEN TRUE ELSE ExitEvent
    /\ waiter' = IF IsRunning THEN "Join" ELSE None
    /\ lastCall' = Out( "WaitForStop", << >>, IF IsRunning THEN "blocked" ELSE "void", << >>, << >> )
    /\ UNCHANGED << configVars, cacheVars, InfoCollectedEvent, Listener, FramesCounter,
                    runVars, propVars, pc, lockVars, crossbarInput, seen >>
    /\ UNCHANGED grabberVars

\* BackgroundThread.Join( ) returns: the thread has ended
WaitForStopReturn ==
    /\ waiter = "Join"
    /\ ~IsRunning
    /\ waiter' = None
    /\ lastCall' = Out( "WaitForStop", << >>, "void", << >>, << >> )
    /\ UNCHANGED << configVars, cacheVars, InfoCollectedEvent, Listener, ExitEvent, FramesCounter,
                    runVars, propVars, pc, lockVars, crossbarInput, seen >>
    /\ UNCHANGED grabberVars

\* a SetListener( ) that does not wait for Sync
SetListenerWithoutSync( listener ) ==
    /\ Listener' = listener
    /\ lastCall' = Out( "SetListener", << listener >>, "void", << >>, << >> )
    /\ UNCHANGED << configVars, cacheVars, InfoCollectedEvent, ExitEvent, FramesCounter,
                    runVars, propVars, pc, lockVars, waiter, crossbarInput, seen >>
    /\ UNCHANGED grabberVars

SetListener( listener ) ==
    /\ SyncOwner = None
    /\ Listener' = listener
    /\ lastCall' = Out( "SetListener", << listener >>, "void", << >>, << >> )
    /\ UNCHANGED << configVars, cacheVars, InfoCollectedEvent, ExitEvent, FramesCounter,
                    runVars, propVars, pc, lockVars, waiter, crossbarInput, seen >>
    /\ UNCHANGED grabberVars

\* SetDeviceMoniker( ) that keeps the collected information
SetDeviceMonikerKeepsCaches( moniker ) ==
    /\ SyncOwner = None
    /\ IF ~IsRunning
       THEN /\ DeviceMoniker' = moniker
            /\ Resolution' = DefaultCap
            /\ VideoInput' = DefaultPin
            /\ RequestedFps' = 0
            /\ seen' = NothingSeen
            /\ lastCall' = Out( "SetDeviceMoniker", << moniker >>, TRUE, << >>, << >> )
       ELSE /\ lastCall' = Out( "SetDeviceMoniker", << moniker >>, FALSE, << >>, << >> )
            /\ UNCHANGED << DeviceMoniker, Resolution, VideoInput, RequestedFps, seen >>
    /\ UNCHANGED << NeedToSetVideoInput, cacheVars, InfoCollectedEvent, Listener, ExitEvent, FramesCounter,
                    runVars, propVars, pc, lockVars, waiter, crossbarInput >>
    /\ UNCHANGED grabberVars

\* SetDeviceMoniker( ) without the check of IsRunning( )
SetDeviceMonikerWhileRunning( moniker ) ==
    /\ SyncOwner = None
    /\ DeviceMoniker' = moniker
    /\ Capabilities' = << >>
    /\ VideoPins' = << >>
    /\ IsCrossbarAvailable' = FALSE
    /\ InfoCollectedEvent' = FALSE
    /\ Resolution' = DefaultCap
    /\ VideoInput' = DefaultPin
    /\ RequestedFps' = 0
    /\ seen' = NothingSeen
    /\ lastCall' = Out( "SetDeviceMoniker", << moniker >>, TRUE, << >>, << >> )
    /\ UNCHANGED << NeedToSetVideoInput, Listener, ExitEvent, FramesCounter,
                    runVars, propVars, pc, lockVars, waiter, crossbarInput >>
    /\ UNCHANGED grabberVars

SetDeviceMoniker( moniker ) ==
    /\ SyncOwner = None
    /\ IF ~IsRunning
       THEN /\ DeviceMoniker' = moniker
            /\ Capabilities' = << >>
            /\ VideoPins' = << >>
            /\ IsCrossbarAvailable' = FALSE
            /\ InfoCollectedEvent' = FALSE
            /\ Resolution' = DefaultCap
            /\ VideoInput' = DefaultPin
            /\ RequestedFps' = 0
            /\ seen' = NothingSeen
            /\ lastCall' = Out( "SetDeviceMoniker", << moniker >>, TRUE, << >>, << >> )
       ELSE /\ lastCall' = Out( "SetDeviceMoniker", << moniker >>, FALSE, << >>, << >> )
            /\ UNCHANGED << DeviceMoniker, cacheVars, InfoCollectedEvent, Resolution, VideoInput,
                            RequestedFps, seen >>
    /\ UNCHANGED << NeedToSetVideoInput, Listener, ExitEvent, FramesCounter,
                    runVars, propVars, pc, lockVars, waiter, crossbarInput >>
    /\ UNCHANGED grabberVars

\* SetResolution( ) without the check of IsRunning( )
SetResolutionWhileRunning( resolution, requestedFps ) ==
    /\ SyncOwner = None
    /\ Resolution' = resolution
    /\ RequestedFps' = requestedFps
    /\ lastCall' = Out( "SetResolution", << resolution, requestedFps >>, TRUE, << >>, << >> )
    /\ UNCHANGED << DeviceMoniker, VideoInput, NeedToSetVideoInput, cacheVars, InfoCollectedEvent,
                    Listener, ExitEvent, FramesCounter, runVars, propVars, pc, lockVars, waiter,
                    crossbarInput, seen >>
    /\ UNCHANGED grabberVars

\* SetResolution( ) that also resets InfoCollectedEvent
SetResolutionResetsInfo( resolution, requestedFps ) ==
    /\ SyncOwner = None
    /\ IF ~IsRunning
       THEN /\ Resolution' = resolution
            /\ RequestedFps' = requestedFps
            /\ InfoCollectedEvent' = FALSE
            /\ lastCall' = Out( "SetResolution", << resolution, requestedFps >>, TRUE, << >>, << >> )
       ELSE /\ lastCall' = Out( "SetResolution", << resolution, requestedFps >>, FALSE, << >>, << >> )
            /\ UNCHANGED << Resolution, RequestedFps, InfoCollectedEvent >>
    /\ UNCHANGED << DeviceMoniker, VideoInput, NeedToSetVideoInput, cacheVars,
                    Listener, ExitEvent, FramesCounter, runVars, propVars, pc, lockVars, waiter,
                    crossbarInput, seen >>
    /\ UNCHANGED grabberVars

SetResolution( resolution, requestedFps ) ==
    /\ SyncOwner = None
    /\ IF ~IsRunning
       THEN /\ Resolution' = resolution
            /\ RequestedFps' = requestedFps
            /\ lastCall' = Out( "SetResolution", << resolution, requestedFps >>, TRUE, << >>, << >> )
       ELSE /\ lastCall' = Out( "SetResolution", << resolution, requestedFps >>, FALSE, << >>, << >> )
            /\ UNCHANGED << Resolution, RequestedFps >>
    /\ UNCHANGED << DeviceMoniker, VideoInput, NeedToSetVideoInput, cacheVars, InfoCollectedEvent,
                    Listener, ExitEvent, FramesCounter, runVars, propVars, pc, lockVars, waiter,
                    crossbarInput, seen >>
    /\ UNCHANGED grabberVars

-----------------------------------------------------------------------------
(* The facade: discovery (GetCapabilities, GetInputVideoPins, IsCrossbarSupported) *)

\* what an accessor copies out of the caches when CollectInfo( ) returned true
CacheResult( accessor, capabilities, videoPins, isCrossbarAvailable ) ==
    IF accessor = "GetCapabilities" THEN capabilities
    ELSE IF accessor = "GetInputVideoPins" THEN videoPins
    ELSE isCrossbarAvailable

\* an accessor whose pass does not find the device and leaves the event as it is
CollectInfoFailsUnsignaled( accessor ) ==
    /\ SyncOwner = None
    /\ waiter = None
    /\ ~IsRunning
    /\ DeviceMoniker # ""
    /\ ~InfoCollectedEvent
    /\ NeedToSetVideoInput' = TRUE
    /\ lastCall' = Out( accessor, << >>, CacheResult( accessor, Capabilities, VideoPins, IsCrossbarAvailable ),
                        BuildCalls( "noSourceFilter", DeviceMoniker, Resolution, RequestedFps ),
                        NotifyError( "Did not find video device. Unplugged?", FALSE ) )
    /\ seen' = [ seen EXCEPT ![accessor] = [ valid |-> TRUE, fresh |-> TRUE,
                     ret |-> CacheResult( accessor, Capabilities, VideoPins, IsCrossbarAvailable ) ] ]
    /\ UNCHANGED << DeviceMoniker, Resolution, RequestedFps, VideoInput, cacheVars, InfoCollectedEvent,
                    Listener, ExitEvent, FramesCounter, runVars, propVars, pc, lockVars, waiter,
                    crossbarInput >>
    /\ UNCHANGED grabberVars

\* an accessor whose pass goes on to prepare and run the graph
CollectInfoStartsVideo( accessor ) ==
    /\ SyncOwner = None
    /\ waiter = None
    /\ ~IsRunning
    /\ DeviceMoniker # ""
    /\ InfoCollectedEvent' = TRUE
    /\ pc' = "prepare"
    /\ lastCall' = Out( accessor, << >>, CacheResult( accessor, Capabilities, VideoPins, IsCrossbarAvailable ),
                        BuildCalls( "ok", DeviceMoniker, Resolution, RequestedFps ), << >> )
    /\ UNCHANGED << configVars, cacheVars, Listener, ExitEvent, FramesCounter, runVars, propVars,
                    lockVars, waiter, crossbarInput, seen >>
    /\ UNCHANGED grabberVars

\* An accessor under Sync, up to its return or up to InfoCollectedEvent.Wait( 5000 ):
\* CollectInfo( ) fails on an empty moniker, succeeds at once when the event is
\* signaled, waits for a running background thread, and otherwise runs
\* RunVideo( false ) on the caller: one pass of the do-loop, then InfoCollectedEvent.Signal( ).
CollectInfo( accessor ) ==
    /\ SyncOwner = None
    /\ waiter = None
    /\ IF DeviceMoniker = ""
       THEN /\ lastCall' = Out( accessor, << >>, EmptyResult( accessor ), << >>, << >> )
            /\ seen' = [ seen EXCEPT ![accessor] = [ valid |-> TRUE, fresh |-> TRUE, ret |-> EmptyResult( accessor ) ] ]
            /\ UNCHANGED << NeedToSetVideoInput, cacheVars, InfoCollectedEvent, SyncOwner, waiter >>
       ELSE IF InfoCollectedEvent
       THEN LET ret == CacheResult( accessor, Capabilities, VideoPins, IsCrossbarAvailable )
            IN  /\ lastCall' = Out( accessor, << >>, ret, << >>, << >> )
                /\ seen' = [ seen EXCEPT ![accessor] = [ valid |-> TRUE, fresh |-> TRUE, ret |-> ret ] ]
                /\ UNCHANGED << NeedToSetVideoInput, cacheVars, InfoCollectedEvent, SyncOwner, waiter >>
       ELSE IF IsRunning
       THEN /\ SyncOwner' = accessor
            /\ waiter' = accessor
            /\ lastCall' = Out( accessor, << >>, "blocked", << >>, << >> )
            /\ UNCHANGED << NeedToSetVideoInput, cacheVars, InfoCollectedEvent, seen >>
       ELSE \E outcome \in BuildOutcomes :
              LET found  == outcome = "ok"
                  pins   == IF found /\ DeviceCrossbarInputs( DeviceMoniker ) # << >>
                            THEN ColletCrossbarVideoInputs( DeviceCrossbarInputs( DeviceMoniker ) )
                            ELSE VideoPins
                  xbar   == IF found /\ DeviceCrossbarInputs( DeviceMoniker ) # << >>
                            THEN TRUE ELSE IsCrossbarAvailable
                  caps   == IF found
                            THEN GetPinCapabilitiesAndConfigureIt(
                                     DeviceFormats( DeviceMoniker ), Resolution, RequestedFps ).caps
                            ELSE Capabilities
                  ret    == CacheResult( accessor, caps, pins, xbar )
                  notes  == IF outcome = "basicInitializationFailed"
                            THEN NotifyError( "Failed DirectShow initialization", TRUE )
                            ELSE IF outcome = "noSourceFilter"
                            THEN NotifyError( "Did not find video device. Unplugged?", FALSE )
                            ELSE << >>
              IN  /\ NeedToSetVideoInput' = IF outcome = "basicInitializationFailed"
                                            THEN NeedToSetVideoInput ELSE TRUE
                  /\ VideoPins' = pins
                  /\ IsCrossbarAvailable' = xbar
                  /\ Capabilities' = caps
                  /\ InfoCollectedEvent' = TRUE
                  /\ lastCall' = Out( accessor, << >>, ret,
                                  BuildCalls( outcome, DeviceMoniker, Resolution, RequestedFps ), notes )
                  /\ seen' = [ seen EXCEPT ![accessor] = [ valid |-> TRUE, fresh |-> TRUE, ret |-> ret ] ]
                  /\ UNCHANGED << SyncOwner, waiter >>
    /\ UNCHANGED << DeviceMoniker, Resolution, RequestedFps, VideoInput, Listener, ExitEvent,
                    FramesCounter, runVars, propVars, pc, RunningSyncOwner, crossbarInput >>
    /\ UNCHANGED grabberVars

\* an accessor that copies the caches whether or not the wait succeeded
CollectInfoReturnsCaches( accessor ) ==
    /\ waiter = accessor
    /\ SyncOwner = accessor
    /\ LET ret == CacheResult( accessor, Capabilities, VideoPins, IsCrossbarAvailable )
       IN  /\ lastCall' = Out( accessor, << >>, ret, << >>, << >> )
           /\ seen' = [ seen EXCEPT ![accessor] = [ valid |-> TRUE, fresh |-> InfoCollectedEvent, ret |-> ret ] ]
    /\ SyncOwner' = None
    /\ waiter' = None
    /\ UNCHANGED << configVars, cacheVars, InfoCollectedEvent, Listener, ExitEvent, FramesCounter,
                    runVars, propVars, pc, RunningSyncOwner, crossbarInput >>
    /\ UNCHANGED grabberVars

\* a wait on InfoCollectedEvent without a timeout
CollectInfoReturnOnSignal( accessor ) ==
    /\ waiter = accessor
    /\ SyncOwner = accessor
    /\ InfoCollectedEvent
    /\ lastCall' = Out( accessor, << >>, CacheResult( accessor, Capabilities, VideoPins, IsCrossbarAvailable ),
                        << >>, << >> )
    /\ seen' = [ seen EXCEPT ![accessor] = [ valid |-> TRUE, fresh |-> TRUE,
                     ret |-> CacheResult( accessor, Capabilities, VideoPins, IsCrossbarAvailable ) ] ]
    /\ SyncOwner' = None
    /\ waiter' = None
    /\ UNCHANGED << configVars, cacheVars, InfoCollectedEvent, Listener, ExitEvent, FramesCounter,
                    runVars, propVars, pc, RunningSyncOwner, crossbarInput >>
    /\ UNCHANGED grabberVars

\* InfoCollectedEvent.Wait( 5000 ) returns: true when the event is signaled, false
\* when 5 s have passed without it; the accessor returns and Sync is released.
CollectInfoReturn( accessor ) ==
    /\ waiter = accessor
    /\ SyncOwner = accessor
    /\ LET ret == IF InfoCollectedEvent
                  THEN CacheResult( accessor, Capabilities, VideoPins, IsCrossbarAvailable )
                  ELSE EmptyResult( accessor )
       IN  /\ lastCall' = Out( accessor, << >>, ret, << >>, << >> )
           /\ seen' = [ seen EXCEPT ![accessor] = [ valid |-> TRUE, fresh |-> InfoCollectedEvent, ret |-> ret ] ]
    /\ SyncOwner' = None
    /\ waiter' = None
    /\ UNCHANGED << configVars, cacheVars, InfoCollectedEvent, Listener, ExitEvent, FramesCounter,
                    runVars, propVars, pc, RunningSyncOwner, crossbarInput >>
    /\ UNCHANGED grabberVars

\* IsDeviceRunning( ): DeviceIsRunning read under RunningSync
IsDeviceRunning == DeviceIsRunning

\* WaitForDeviceRunning( msec ) enters DeviceIsRunningEvent.Wait( msec )
WaitForDeviceRunning ==
    /\ waiter = None
    /\ waiter' = "WaitForDeviceRunning"
    /\ lastCall' = Out( "WaitForDeviceRunning", << >>, "blocked", << >>, << >> )
    /\ UNCHANGED << configVars, cacheVars, InfoCollectedEvent, Listener, ExitEvent, FramesCounter,
                    runVars, propVars, pc, lockVars, crossbarInput, seen >>
    /\ UNCHANGED grabberVars

\* a wait that reports success whatever the event's state
WaitForDeviceRunningReturnsTrue ==
    /\ waiter = "WaitForDeviceRunning"
    /\ waiter' = None
    /\ lastCall' = Out( "WaitForDeviceRunning", << >>, TRUE, << >>, << >> )
    /\ UNCHANGED << configVars, cacheVars, InfoCollectedEvent, Listener, ExitEvent, FramesCounter,
                    runVars, propVars, pc, lockVars, crossbarInput, seen >>
    /\ UNCHANGED grabberVars

\* DeviceIsRunningEvent.Wait( msec ) returns: true when the event is signaled,
\* false when msec have passed without it
WaitForDeviceRunningReturn ==
    /\ waiter = "WaitForDeviceRunning"
    /\ waiter' = None
    /\ lastCall' = Out( "WaitForDeviceRunning", << >>, DeviceIsRunningEvent, << >>, << >> )
    /\ UNCHANGED << configVars, cacheVars, InfoCollectedEvent, Listener, ExitEvent, FramesCounter,
                    runVars, propVars, pc, lockVars, crossbarInput, seen >>
    /\ UNCHANGED grabberVars

\* IsVideoConfigSupported( ) / IsCameraConfigSupported( ): the handle read under RunningSync
IsVideoConfigSupported  == VideoProcAmp
IsCameraConfigSupported == CameraControl

-----------------------------------------------------------------------------
(* The facade: video and camera properties (all under RunningSync) *)

HResults == { "S_OK", "E_PROP_ID_UNSUPPORTED", "E_FAIL" }

\* ret = ( hr == E_PROP_ID_UNSUPPORTED ) ? ErrorUnsupportedProperty : ErrorFailed, when FAILED( hr )
HResultToError( hr ) ==
    IF hr = "S_OK" THEN "SuccessCode"
    ELSE IF hr = "E_PROP_ID_UNSUPPORTED" THEN "ErrorUnsupportedProperty" ELSE "ErrorFailed"

\* the range check without its upper end
VideoPropertyBelowRange( property ) ==
    property < VideoPropertyFirst

\* ( property < XVideoProperty::Brightness ) || ( property > XVideoProperty::Gain )
VideoPropertyOutOfRange( property ) ==
    ( property < VideoPropertyFirst ) \/ ( property > VideoPropertyLast )

\* the range check without its lower end
CameraPropertyAboveRange( property ) ==
    property > CameraPropertyLast

\* ( property < XCameraProperty::Pan ) || ( property > XCameraProperty::Focus )
CameraPropertyOutOfRange( property ) ==
    ( property < CameraPropertyFirst ) \/ ( property > CameraPropertyLast )

SetVideoProperty( property, value, automatic ) ==
    /\ RunningSyncOwner = None
    /\ IF VideoPropertyOutOfRange( property )
       THEN /\ lastCall' = Out( "SetVideoProperty", << property, value, automatic >>, "ErrorInvalidProperty", << >>, << >> )
            /\ UNCHANGED VideoPropertiesToSet
       ELSE IF ~DeviceIsRunning
       THEN /\ VideoPropertiesToSet' = MapPut( VideoPropertiesToSet, property, << value, automatic >> )
            /\ lastCall' = Out( "SetVideoProperty", << property, value, automatic >>, "SuccessCode", << >>, << >> )
       ELSE IF ~VideoProcAmp
       THEN /\ lastCall' = Out( "SetVideoProperty", << property, value, automatic >>, "ErrorConfigurationNotSupported", << >>, << >> )
            /\ UNCHANGED VideoPropertiesToSet
       ELSE /\ \E hr \in HResults :
                 lastCall' = Out( "SetVideoProperty", << property, value, automatic >>, HResultToError( hr ),
                              << << "video", property, value, automatic >> >>, << >> )
            /\ UNCHANGED VideoPropertiesToSet
    /\ UNCHANGED << configVars, cacheVars, InfoCollectedEvent, Listener, ExitEvent, FramesCounter,
                    runVars, CameraPropertiesToSet, pc, lockVars, waiter, crossbarInput, seen >>
    /\ UNCHANGED grabberVars

\* SetCameraProperty( ) that saves the property whether or not the device is running
SetCameraPropertyAlwaysDefers( property, value, automatic ) ==
    /\ RunningSyncOwner = None
    /\ IF CameraPropertyOutOfRange( property )
       THEN /\ lastCall' = Out( "SetCameraProperty", << property, value, automatic >>, "ErrorInvalidProperty", << >>, << >> )
            /\ UNCHANGED CameraPropertiesToSet
       ELSE /\ CameraPropertiesToSet' = MapPut( CameraPropertiesToSet, property, << value, automatic >> )
            /\ lastCall' = Out( "SetCameraProperty", << property, value, automatic >>, "SuccessCode", << >>, << >> )
    /\ UNCHANGED << configVars, cacheVars, InfoCollectedEvent, Listener, ExitEvent, FramesCounter,
                    runVars, VideoPropertiesToSet, pc, lockVars, waiter, crossbarInput, seen >>
    /\ UNCHANGED grabberVars

SetCameraProperty( property, value, automatic ) ==
    /\ RunningSyncOwner = None
    /\ IF CameraPropertyOutOfRange( property )
       THEN /\ lastCall' = Out( "SetCameraProperty", << property, value, automatic >>, "ErrorInvalidProperty", << >>, << >> )
            /\ UNCHANGED CameraPropertiesToSet
       ELSE IF ~DeviceIsRunning
       THEN /\ CameraPropertiesToSet' = MapPut( CameraPropertiesToSet, property, << value, automatic >> )
            /\ lastCall' = Out( "SetCameraProperty", << property, value, automatic >>, "SuccessCode", << >>, << >> )
       ELSE IF ~CameraControl
       THEN /\ lastCall' = Out( "SetCameraProperty", << property, value, automatic >>, "ErrorConfigurationNotSupported", << >>, << >> )
            /\ UNCHANGED CameraPropertiesToSet
       ELSE /\ \E hr \in HResults :
                 lastCall' = Out( "SetCameraProperty", << property, value, automatic >>, HResultToError( hr ),
                              << << "camera", property, value, automatic >> >>, << >> )
            /\ UNCHANGED CameraPropertiesToSet
    /\ UNCHANGED << configVars, cacheVars, InfoCollectedEvent, Listener, ExitEvent, FramesCounter,
                    runVars, VideoPropertiesToSet, pc, lockVars, waiter, crossbarInput, seen >>
    /\ UNCHANGED grabberVars

\* The getters: `value`, `automatic` are "nullptr" or "ptr"; nullParams is the set of
\* range parameters passed as nullptr; hr is what the hardware would answer.
\* Result: the return code, the output parameters written, whether hardware was called.
Answer( ret, written, hw ) == [ ret |-> ret, written |-> written, hw |-> hw ]

RangeParams == { "min", "max", "step", "defaultValue", "isAutomaticSupported" }

\* GetVideoProperty( ) with the check of DeviceIsRunning ahead of the check of the id
GetVideoPropertyReadyFirst( property, value, automatic, hr ) ==
    IF value = "nullptr" THEN Answer( "ErrorNullParameter", {}, FALSE )
    ELSE IF ~DeviceIsRunning THEN Answer( "ErrorDeivceNotReady", {}, FALSE )
    ELSE IF VideoPropertyOutOfRange( property )
    THEN Answer( "ErrorInvalidProperty", {}, FALSE )
    ELSE IF ~VideoProcAmp THEN Answer( "ErrorConfigurationNotSupported", {}, FALSE )
    ELSE IF hr # "S_OK" THEN Answer( HResultToError( hr ), {}, TRUE )
    ELSE Answer( "SuccessCode",
                 { "value" } \cup ( IF automatic # "nullptr" THEN { "automatic" } ELSE {} ), TRUE )

GetVideoProperty( property, value, automatic, hr ) ==
    IF value = "nullptr" THEN Answer( "ErrorNullParameter", {}, FALSE )
    ELSE IF VideoPropertyOutOfRange( property )
    THEN Answer( "ErrorInvalidProperty", {}, FALSE )
    ELSE IF ~DeviceIsRunning THEN Answer( "ErrorDeivceNotReady", {}, FALSE )
    ELSE IF ~VideoProcAmp THEN Answer( "ErrorConfigurationNotSupported", {}, FALSE )
    ELSE IF hr # "S_OK" THEN Answer( HResultToError( hr ), {}, TRUE )
    ELSE Answer( "SuccessCode",
                 { "value" } \cup ( IF automatic # "nullptr" THEN { "automatic" } ELSE {} ), TRUE )

GetVideoPropertyRange( property, nullParams, hr ) ==
    IF nullParams # {} THEN Answer( "ErrorNullParameter", {}, FALSE )
    ELSE IF VideoPropertyOutOfRange( property )
    THEN Answer( "ErrorInvalidProperty", {}, FALSE )
    ELSE IF ~DeviceIsRunning THEN Answer( "ErrorDeivceNotReady", {}, FALSE )
    ELSE IF ~VideoProcAmp THEN Answer( "ErrorConfigurationNotSupported", {}, FALSE )
    ELSE IF hr # "S_OK" THEN Answer( HResultToError( hr ), {}, TRUE )
    ELSE Answer( "SuccessCode", RangeParams, TRUE )

GetCameraProperty( property, value, automatic, hr ) ==
    IF value = "nullptr" THEN Answer( "ErrorNullParameter", {}, FALSE )
    ELSE IF CameraPropertyOutOfRange( property )
    THEN Answer( "ErrorInvalidProperty", {}, FALSE )
    ELSE IF ~DeviceIsRunning THEN Answer( "ErrorDeivceNotReady", {}, FALSE )
    ELSE IF ~CameraControl THEN Answer( "ErrorConfigurationNotSupported", {}, FALSE )
    ELSE IF hr # "S_OK" THEN Answer( HResultToError( hr ), {}, TRUE )
    ELSE Answer( "SuccessCode",
                 { "value" } \cup ( IF automatic # "nullptr" THEN { "automatic" } ELSE {} ), TRUE )

GetCameraPropertyRange( property, nullParams, hr ) ==
    IF nullParams # {} THEN Answer( "ErrorNullParameter", {}, FALSE )
    ELSE IF CameraPropertyOutOfRange( property )
    THEN Answer( "ErrorInvalidProperty", {}, FALSE )
    ELSE IF ~DeviceIsRunning THEN Answer( "ErrorDeivceNotReady", {}, FALSE )
    ELSE IF ~CameraControl THEN Answer( "ErrorConfigurationNotSupported", {}, FALSE )
    ELSE IF hr # "S_OK" THEN Answer( HResultToError( hr ), {}, TRUE )
    ELSE Answer( "SuccessCode", RangeParams, TRUE )

\* A getter called by a facade caller: its answer is handed back, nothing else changes.
GetterOut( op, arg, answer, call ) ==
    << op, [ op |-> op, arg |-> arg, ret |-> answer.ret, written |-> answer.written,
             hw |-> IF answer.hw THEN << call >> ELSE << >>, note |-> << >> ] >>

GetVideoPropertyCall( property, value, automatic ) ==
    /\ RunningSyncOwner = None
    /\ \E hr \in HResults :
         lastCall' = GetterOut( "GetVideoProperty", << property, value, automatic >>,
                            GetVideoProperty( property, value, automatic, hr ),
                            << "video", "Get", property >> )
    /\ UNCHANGED << configVars, cacheVars, InfoCollectedEvent, Listener, ExitEvent, FramesCounter,
                    runVars, propVars, pc, lockVars, waiter, crossbarInput, seen >>
    /\ UNCHANGED grabberVars

GetVideoPropertyRangeCall( property, nullParams ) ==
    /\ RunningSyncOwner = None
    /\ \E hr \in HResults :
         lastCall' = GetterOut( "GetVideoPropertyRange", << property, nullParams >>,
                            GetVideoPropertyRange( property, nullParams, hr ),
                            << "video", "GetRange", property >> )
    /\ UNCHANGED << configVars, cacheVars, InfoCollectedEvent, Listener, ExitEvent, FramesCounter,
                    runVars, propVars, pc, lockVars, waiter, crossbarInput, seen >>
    /\ UNCHANGED grabberVars

GetCameraPropertyCall( property, value, automatic ) ==
    /\ RunningSyncOwner = None
    /\ \E hr \in HResults :
         lastCall' = GetterOut( "GetCameraProperty", << property, value, automatic >>,
                            GetCameraProperty( property, value, automatic, hr ),
                            << "camera", "Get", property >> )
    /\ UNCHANGED << configVars, cacheVars, InfoCollectedEvent, Listener, ExitEvent, FramesCounter,
                    runVars, propVars, pc, lockVars, waiter, crossbarInput, seen >>
    /\ UNCHANGED grabberVars

GetCameraPropertyRangeCall( property, nullParams ) ==
    /\ RunningSyncOwner = None
    /\ \E hr \in HResults :
         lastCall' = GetterOut( "GetCameraPropertyRange", << property, nullParams >>,
                            GetCameraPropertyRange( property, nullParams, hr ),
                            << "camera", "GetRange", property >> )
    /\ UNCHANGED << configVars, cacheVars, InfoCollectedEvent, Listener, ExitEvent, FramesCounter,
                    runVars, propVars, pc, lockVars, waiter, crossbarInput, seen >>
    /\ UNCHANGED grabberVars

\* the pointer arguments callers pass
Pointers == { "nullptr", "ptr" }
\* the range parameters a caller leaves out: none, or one of the five
NullParamInputs == { {} } \cup { { x } : x \in RangeParams }

-----------------------------------------------------------------------------
(* The system *)

\* Start, stop and configuration of the source
LifecycleCalls ==
    \/ Start
    \/ SignalToStop
    \/ WaitForStop
    \/ WaitForStopReturn
    \/ \E listener \in Listeners \cup { NoListener } : SetListener( listener )
    \/ \E moniker \in Monikers : SetDeviceMoniker( moniker )
    \/ \E r \in ResolutionInputs : SetResolution( r[1], r[2] )
    \/ WaitForDeviceRunning
    \/ WaitForDeviceRunningReturn

\* SetVideoInput( input ) that stores the pin only
SetVideoInputKeepsFlag( input ) ==
    /\ VideoInput' = input
    /\ lastCall' = Out( "SetVideoInput", << input >>, "void", << >>, << >> )
    /\ UNCHANGED << DeviceMoniker, Resolution, RequestedFps, NeedToSetVideoInput, cacheVars,
                    InfoCollectedEvent, Listener, ExitEvent, FramesCounter, runVars, propVars,
                    pc, lockVars, waiter, crossbarInput, seen >>
    /\ UNCHANGED grabberVars

\* SetVideoInput( input ): no lock is taken and no state is looked at
SetVideoInput( input ) ==
    /\ VideoInput' = input
    /\ NeedToSetVideoInput' = TRUE
    /\ lastCall' = Out( "SetVideoInput", << input >>, "void", << >>, << >> )
    /\ UNCHANGED << DeviceMoniker, Resolution, RequestedFps, cacheVars,
                    InfoCollectedEvent, Listener, ExitEvent, FramesCounter, runVars, propVars,
                    pc, lockVars, waiter, crossbarInput, seen >>
    /\ UNCHANGED grabberVars

\* the video input
RoutingCalls == \E input \in PinInputs : SetVideoInput( input )

\* the property setters
SetterCalls ==
    \/ \E property \in VideoPropertyInputs, v \in PropValueInputs : SetVideoProperty( property, v[1], v[2] )
    \/ \E property \in CameraPropertyInputs, v \in PropValueInputs : SetCameraProperty( property, v[1], v[2] )

\* the property getters
GetterCalls ==
    \/ \E property \in VideoPropertyInputs, value \in Pointers, automatic \in Pointers :
         GetVideoPropertyCall( property, value, automatic )
    \/ \E property \in VideoPropertyInputs, nullParams \in NullParamInputs :
         GetVideoPropertyRangeCall( property, nullParams )
    \/ \E property \in CameraPropertyInputs, value \in Pointers, automatic \in Pointers :
         GetCameraPropertyCall( property, value, automatic )
    \/ \E property \in CameraPropertyInputs, nullParams \in NullParamInputs :
         GetCameraPropertyRangeCall( property, nullParams )

\* the discovery accessors
DiscoveryCalls ==
    \/ \E accessor \in Accessors : CollectInfo( accessor )
    \/ \E accessor \in Accessors : CollectInfoReturn( accessor )

FrameCallback == \E bufferValid \in BOOLEAN : BufferCB( bufferValid )

\* every caller at once
Next ==
    \/ RunVideo
    \/ FrameCallback
    \/ LifecycleCalls
    \/ SetterCalls
    \/ GetterCalls
    \/ DiscoveryCalls
    \/ RoutingCalls

Spec == Init /\ [][Next]_vars

\* The source with callers that start, stop and configure it.
NextLifecycle ==
    \/ RunVideo
    \/ FrameCallback
    \/ LifecycleCalls

SpecLifecycle == Init /\ [][NextLifecycle]_vars

\* DeviceIsRunningEvent.Wait( msec ) returns at the latest when msec have passed.
FairLifecycle == SpecLifecycle /\ WF_vars( WaitForDeviceRunningReturn )

\* The source with a caller that starts and stops it. The background thread keeps
\* running: each step of RunVideo( ) that can be taken is taken (its waits are
\* bounded: 100 ms for a graph event, 1 s of back-off).
NextRun ==
    \/ RunVideo
    \/ FrameCallback
    \/ Start
    \/ SignalToStop

SpecRun == Init /\ [][NextRun]_vars

FairRun == SpecRun /\ WF_vars( RunVideo )

\* The source with callers that start and stop it, register a listener and ask
\* for the capabilities, the pins and the crossbar.
NextRetry ==
    \/ RunVideo
    \/ Start
    \/ SignalToStop
    \/ \E listener \in Listeners \cup { NoListener } : SetListener( listener )
    \/ DiscoveryCalls

SpecRetry == Init /\ [][NextRetry]_vars

\* The source with callers that start it, stop it, wait for its end and ask for
\* the capabilities. The background thread gets the lock it waits for in the end
\* (the accessor holds Sync for 5 s at most: its wait returns), and Join( )
\* returns once the thread has ended.
NextStop ==
    \/ RunVideo
    \/ Start
    \/ SignalToStop
    \/ WaitForStop
    \/ WaitForStopReturn
    \/ CollectInfo( "GetCapabilities" )
    \/ CollectInfoReturn( "GetCapabilities" )

SpecStop == Init /\ [][NextStop]_vars

FairStop ==
    /\ SpecStop
    /\ SF_vars( RunVideo )
    /\ WF_vars( WaitForStopReturn )
    /\ WF_vars( CollectInfoReturn( "GetCapabilities" ) )

\* The source with callers that take either lock: start and stop, listener, one
\* deferred property of each kind, the device identity, the frame callback and one
\* discovery accessor.
NextLocks ==
    \/ RunVideo
    \/ FrameCallback
    \/ Start
    \/ SignalToStop
    \/ \E listener \in Listeners \cup { NoListener } : SetListener( listener )
    \/ SetVideoProperty( VideoPropertyFirst, 1, FALSE )
    \/ SetCameraProperty( CameraPropertyLast, 1, FALSE )
    \/ SetDeviceMoniker( "camB" )
    \/ CollectInfo( "GetCapabilities" )
    \/ CollectInfoReturn( "GetCapabilities" )

SpecLocks == Init /\ [][NextLocks]_vars

\* The source with a caller that starts and stops it and chooses the video input.
NextRouting ==
    \/ RunVideo
    \/ Start
    \/ SignalToStop
    \/ RoutingCalls

SpecRouting == Init /\ [][NextRouting]_vars

\* The conversion alone, on every frame size and buffer of the bounds.
NextConvert == BufferCBImage

SpecConvert == InitConvert /\ [][NextConvert]_vars

\* The source with a caller that chooses the device and the format and starts and stops it.
NextFormats ==
    \/ RunVideo
    \/ Start
    \/ SignalToStop
    \/ \E moniker \in Monikers : SetDeviceMoniker( moniker )
    \/ \E r \in FormatRequests : SetResolution( r[1], r[2] )

SpecFormats == Init /\ [][NextFormats]_vars

\* The source with callers that start and stop it, register a listener and set properties.
NextProperties ==
    \/ RunVideo
    \/ Start
    \/ SignalToStop
    \/ \E listener \in Listeners \cup { NoListener } : SetListener( listener )
    \/ SetterCalls

SpecProperties == Init /\ [][NextProperties]_vars

\* The source with callers that start and stop it and read properties.
NextGetters ==
    \/ RunVideo
    \/ Start
    \/ SignalToStop
    \/ GetterCalls

SpecGetters == Init /\ [][NextGetters]_vars

\* The source with callers that start and stop it, name the device and ask what it offers.
NextDiscovery ==
    \/ RunVideo
    \/ Start
    \/ SignalToStop
    \/ \E moniker \in Monikers : SetDeviceMoniker( moniker )
    \/ \E r \in ResolutionInputs : SetResolution( r[1], r[2] )
    \/ DiscoveryCalls

SpecDiscovery == Init /\ [][NextDiscovery]_vars

\* InfoCollectedEvent.Wait( 5000 ) returns at the latest when 5 s have passed.
FairDiscovery ==
    SpecDiscovery /\ \A accessor \in Accessors : WF_vars( CollectInfoReturn( accessor ) )

-----------------------------------------------------------------------------
(* Properties *)

\* the Streaming state: the graph was run and the loop has not been left
Streaming == DeviceIsRunning

\* C1: Start( ) on an empty moniker returns ErrorInvalidConfiguration, no thread
\* runs before or after it, and FramesCounter, ExitEvent and InfoCollectedEvent
\* keep their values.
C1_StartEmptyMoniker ==
    [][ ( last'.op = "Start" /\ DeviceMoniker = "" ) =>
          /\ last'.ret = "ErrorInvalidConfiguration"
          /\ ~IsRunning
          /\ pc' = None
          /\ UNCHANGED << FramesCounter, ExitEvent, InfoCollectedEvent >> ]_vars

\* Start( ) was refused on an empty moniker after a run that counted frames and was stopped.
C1_Witness ==
    /\ last.op = "Start"
    /\ last.ret = "ErrorInvalidConfiguration"
    /\ DeviceMoniker = ""
    /\ FramesCounter > 0
    /\ ExitEvent
    /\ InfoCollectedEvent = FALSE

\* C2: while streaming, SetDeviceMoniker and SetResolution return false and leave
\* the moniker, the resolution, the requested fps and the cached discovery results
\* as they are; with no background thread they return true and store the value.
C2_SetWhileStreaming ==
    [][ ( last'.op \in { "SetDeviceMoniker", "SetResolution" } ) =>
          /\ Streaming =>
               /\ last'.ret = FALSE
               /\ UNCHANGED << DeviceMoniker, Resolution, RequestedFps, VideoInput,
                               Capabilities, VideoPins, IsCrossbarAvailable, InfoCollectedEvent >>
          /\ ~IsRunning =>
               /\ last'.ret = TRUE
               /\ last'.op = "SetDeviceMoniker" => DeviceMoniker' = last'.arg[1]
               /\ last'.op = "SetResolution" =>
                    ( Resolution' = last'.arg[1] /\ RequestedFps' = last'.arg[2] ) ]_vars

\* A SetResolution( ) that would have changed the resolution was refused while streaming.
C2_Witness ==
    /\ last.op = "SetResolution"
    /\ last.ret = FALSE
    /\ Streaming
    /\ last.arg[1] # Resolution
    /\ Capabilities # << >>

\* the ids of XVideoProperty and of XCameraProperty
VideoProperties  == VideoPropertyFirst..VideoPropertyLast
CameraProperties == CameraPropertyFirst..CameraPropertyLast

\* C3 as written: GetVideoProperty( ) on a device that is not streaming returns
\* DeviceNotReady for every property id, in range or not.
C3_AsWritten ==
    ( last.op = "GetVideoProperty" /\ last.arg[2] = "ptr" /\ ~Streaming ) =>
        last.ret = "ErrorDeivceNotReady"

\* C3, amended: GetVideoProperty( ) with a value pointer on a device that is not
\* streaming returns DeviceNotReady for every id of XVideoProperty and
\* InvalidProperty for every other id; it calls no hardware and writes nothing.
C3_GetVideoPropertyIdle ==
    ( last.op = "GetVideoProperty" /\ last.arg[2] = "ptr" /\ ~Streaming ) =>
        /\ last.ret = IF last.arg[1] \in VideoProperties
                      THEN "ErrorDeivceNotReady" ELSE "ErrorInvalidProperty"
        /\ last.written = {}
        /\ last.hw = << >>

\* Gain was asked for while the background thread was retrying, not streaming.
C3_Witness ==
    /\ last.op = "GetVideoProperty"
    /\ last.arg[1] = VideoPropertyLast
    /\ last.ret = "ErrorDeivceNotReady"
    /\ pc = "backoff"

\* C4: SetVideoProperty / SetCameraProperty on a device that is not streaming
\* puts { value, automatic } under the property in the map of its domain, keeps
\* every other entry and the other domain's map, returns SuccessCode and calls no hardware.
C4_SetDefers ==
    [][ /\ ( last'.op = "SetVideoProperty" /\ last'.arg[1] \in VideoProperties /\ ~Streaming ) =>
             /\ DOMAIN VideoPropertiesToSet' = ( DOMAIN VideoPropertiesToSet ) \cup { last'.arg[1] }
             /\ VideoPropertiesToSet'[last'.arg[1]] = << last'.arg[2], last'.arg[3] >>
             /\ \A p \in ( DOMAIN VideoPropertiesToSet ) \ { last'.arg[1] } :
                    VideoPropertiesToSet'[p] = VideoPropertiesToSet[p]
             /\ CameraPropertiesToSet' = CameraPropertiesToSet
             /\ last'.ret = "SuccessCode"
             /\ last'.hw = << >>
        /\ ( last'.op = "SetCameraProperty" /\ last'.arg[1] \in CameraProperties /\ ~Streaming ) =>
             /\ DOMAIN CameraPropertiesToSet' = ( DOMAIN CameraPropertiesToSet ) \cup { last'.arg[1] }
             /\ CameraPropertiesToSet'[last'.arg[1]] = << last'.arg[2], last'.arg[3] >>
             /\ \A p \in ( DOMAIN CameraPropertiesToSet ) \ { last'.arg[1] } :
                    CameraPropertiesToSet'[p] = CameraPropertiesToSet[p]
             /\ VideoPropertiesToSet' = VideoPropertiesToSet
             /\ last'.ret = "SuccessCode"
             /\ last'.hw = << >> ]_vars

\* A video property was deferred next to another video entry and a camera entry.
C4_Witness ==
    /\ last.op = "SetVideoProperty"
    /\ last.ret = "SuccessCode"
    /\ ~Streaming
    /\ DOMAIN VideoPropertiesToSet = { VideoPropertyFirst, VideoPropertyLast }
    /\ VideoPropertiesToSet[VideoPropertyFirst] # VideoPropertiesToSet[VideoPropertyLast]
    /\ DOMAIN CameraPropertiesToSet # {}

\* C5 as written: once the streaming loop is reached both deferred maps are
\* empty, whether or not the device offers the control handles.
C5_AsWritten ==
    pc = "loop" => ( VideoPropertiesToSet = EmptyMap /\ CameraPropertiesToSet = EmptyMap )

\* exactly one hardware Set call for every entry of a deferred map, and no other call
AppliedOnce( domain, m, calls ) ==
    /\ Len( calls ) = Cardinality( DOMAIN m )
    /\ \A p \in DOMAIN m :
         Cardinality( { i \in 1..Len( calls ) : calls[i] = << domain, p, m[p][1], m[p][2] >> } ) = 1

\* C5, amended: on entering Streaming, for each domain whose control handle the
\* device offers, every deferred entry is applied to hardware exactly once and
\* the map is emptied, whether or not applications failed; a domain whose handle
\* is not offered keeps its entries, unapplied. During the streaming loop the
\* map of every offered handle is empty.
C5_DeferredApplied ==
    /\ [][ /\ ( pc = "enterVideo" /\ pc' # "enterVideo" ) =>
                IF VideoProcAmp'
                THEN AppliedOnce( "video", VideoPropertiesToSet, last'.hw ) /\ VideoPropertiesToSet' = EmptyMap
                ELSE last'.hw = << >> /\ VideoPropertiesToSet' = VideoPropertiesToSet
           /\ ( pc = "enterCamera" /\ pc' # "enterCamera" ) =>
                IF CameraControl'
                THEN AppliedOnce( "camera", CameraPropertiesToSet, last'.hw ) /\ CameraPropertiesToSet' = EmptyMap
                ELSE last'.hw = << >> /\ CameraPropertiesToSet' = CameraPropertiesToSet ]_vars
    /\ []( pc = "loop" => /\ VideoProcAmp  => VideoPropertiesToSet = EmptyMap
                          /\ CameraControl => CameraPropertiesToSet = EmptyMap )

\* Two deferred video properties were applied, one application failed, the map is empty.
C5_Witness ==
    /\ pc = "nfVideoCfg"
    /\ Len( last.hw ) = 2
    /\ VideoPropertiesToSet = EmptyMap
    /\ CameraPropertiesToSet # EmptyMap

\* C6 as written: a set call with an id of the enum is applied to hardware when
\* the device is streaming and deferred when it is not.
C6_AsWritten ==
    [][ /\ ( last'.op = "SetVideoProperty" /\ last'.arg[1] \in VideoProperties ) =>
             IF Streaming
             THEN last'.hw # << >>
             ELSE /\ last'.arg[1] \in DOMAIN VideoPropertiesToSet'
                  /\ VideoPropertiesToSet'[last'.arg[1]] = << last'.arg[2], last'.arg[3] >>
        /\ ( last'.op = "SetCameraProperty" /\ last'.arg[1] \in CameraProperties ) =>
             IF Streaming
             THEN last'.hw # << >>
             ELSE /\ last'.arg[1] \in DOMAIN CameraPropertiesToSet'
                  /\ CameraPropertiesToSet'[last'.arg[1]] = << last'.arg[2], last'.arg[3] >> ]_vars

\* C6, amended: a set call with an id outside the enum is rejected with
\* InvalidProperty; with an id of the enum it is deferred with SuccessCode when
\* the device is not streaming, rejected with ConfigurationNotSupported when the
\* device is streaming without the control handle, and applied to hardware
\* (returning the hardware's verdict) when streaming with the handle. Only a
\* deferral changes the map; a rejected call is neither applied nor deferred.
C6_SetOutcome ==
    [][ LET Outcome( op, domain, ids, handle, m, mNext ) ==
                last'.op = op =>
                  LET p == last'.arg[1]
                  IN  IF p \notin ids
                      THEN last'.ret = "ErrorInvalidProperty" /\ last'.hw = << >> /\ mNext = m
                      ELSE IF ~Streaming
                      THEN /\ last'.ret = "SuccessCode" /\ last'.hw = << >>
                           /\ p \in DOMAIN mNext /\ mNext[p] = << last'.arg[2], last'.arg[3] >>
                      ELSE IF ~handle
                      THEN last'.ret = "ErrorConfigurationNotSupported" /\ last'.hw = << >> /\ mNext = m
                      ELSE /\ last'.hw = << << domain, p, last'.arg[2], last'.arg[3] >> >>
                           /\ last'.ret \in { "SuccessCode", "ErrorUnsupportedProperty", "ErrorFailed" }
                           /\ mNext = m
        IN  /\ Outcome( "SetVideoProperty", "video", VideoProperties, VideoProcAmp,
                        VideoPropertiesToSet, VideoPropertiesToSet' )
            /\ Outcome( "SetCameraProperty", "camera", CameraProperties, CameraControl,
                        CameraPropertiesToSet, CameraPropertiesToSet' ) ]_vars

\* A camera property was refused on a streaming device that offers video control only;
\* the camera properties deferred earlier are still waiting.
C6_Witness ==
    /\ last.op = "SetCameraProperty"
    /\ last.ret = "ErrorConfigurationNotSupported"
    /\ Streaming /\ VideoProcAmp /\ ~CameraControl
    /\ CameraPropertiesToSet # EmptyMap

\* C7: the four getters call hardware only when the device is streaming and the
\* control handle of their domain exists; otherwise they return, in this order
\* of precedence, NullParameter (a required output pointer is missing),
\* InvalidProperty (id outside the enum), DeviceNotReady (not streaming),
\* ConfigurationNotSupported (no handle); on any error no output is written.
C7_GetterPrecedence ==
    LET isGet   == last.op \in { "GetVideoProperty", "GetCameraProperty" }
        isRange == last.op \in { "GetVideoPropertyRange", "GetCameraPropertyRange" }
        video   == last.op \in { "GetVideoProperty", "GetVideoPropertyRange" }
        missing == IF isGet THEN last.arg[2] = "nullptr" ELSE last.arg[2] # {}
        known   == last.arg[1] \in ( IF video THEN VideoProperties ELSE CameraProperties )
        handle  == IF video THEN VideoProcAmp ELSE CameraControl
    IN  ( isGet \/ isRange ) =>
          /\ last.hw # << >> <=> ( ~missing /\ known /\ Streaming /\ handle )
          /\ missing => last.ret = "ErrorNullParameter"
          /\ ( ~missing /\ ~known ) => last.ret = "ErrorInvalidProperty"
          /\ ( ~missing /\ known /\ ~Streaming ) => last.ret = "ErrorDeivceNotReady"
          /\ ( ~missing /\ known /\ Streaming /\ ~handle ) => last.ret = "ErrorConfigurationNotSupported"
          /\ last.hw # << >> => last.ret \in { "SuccessCode", "ErrorUnsupportedProperty", "ErrorFailed" }
          /\ last.ret # "SuccessCode" => last.written = {}

\* Every check would fail at once: a missing pointer, an unknown id, a streaming
\* device without camera control; NullParameter wins.
C7_Witness ==
    /\ last.op = "GetCameraPropertyRange"
    /\ last.arg[2] # {}
    /\ last.arg[1] \notin CameraProperties
    /\ Streaming /\ ~CameraControl
    /\ last.ret = "ErrorNullParameter"
    /\ last.written = {}

\* C8: WaitForDeviceRunning( msec ) always returns; it returns true only when
\* DeviceIsRunningEvent is signaled, and on a device that never reaches
\* streaming it returns false.
C8_WaitForDeviceRunning ==
    /\ [][ ( waiter = "WaitForDeviceRunning" /\ waiter' = None ) =>
             /\ last'.ret = TRUE  => DeviceIsRunningEvent
             /\ last'.ret = FALSE => ~Streaming ]_vars
    /\ ( waiter = "WaitForDeviceRunning" ) ~> ( waiter = None )
    /\ ( []( ~DeviceIsRunningEvent ) ) =>
         ( ( waiter = "WaitForDeviceRunning" ) ~>
           ( waiter = None /\ last.op = "WaitForDeviceRunning" /\ last.ret = FALSE ) )

\* The wait ended with false while the background thread was retrying a busy device.
C8_Witness ==
    /\ last.op = "WaitForDeviceRunning"
    /\ waiter = None
    /\ last.ret = FALSE
    /\ pc = "nfBusy"
    /\ ~ExitEvent

\* the positions of RunVideo( ) between the signaling of DeviceIsRunningEvent
\* after a successful pMediaControl->Run( ) and its reset after the loop
StreamingPositions == { "nfVideoCfg", "enterCamera", "nfCameraCfg", "loop", "nfLost", "leave" }

\* C9: DeviceIsRunningEvent and IsDeviceRunning( ) are set only between a
\* successful run of the graph and the end of the streaming loop: they become
\* set only in the step that follows the successful Run( ), are never set while
\* the thread is building, retrying or absent, and are cleared on leaving the loop.
C9_RunningEvent ==
    /\ []( ( DeviceIsRunningEvent \/ IsDeviceRunning ) => pc \in StreamingPositions )
    /\ [][ ( ( ~DeviceIsRunningEvent /\ DeviceIsRunningEvent' ) \/ ( ~IsDeviceRunning /\ IsDeviceRunning' ) )
             => pc = "enterVideo" ]_vars
    /\ [][ ( pc = "leave" /\ pc' # "leave" ) => ( ~DeviceIsRunningEvent' /\ ~IsDeviceRunning' ) ]_vars

\* The device streamed, delivered frames and was lost; the thread is retrying
\* with the event cleared.
C9_Witness ==
    /\ pc = "backoff"
    /\ FramesCounter > 0
    /\ ~ExitEvent
    /\ ~DeviceIsRunningEvent
    /\ ~IsDeviceRunning

\* C10 as written: every call of Start( ) leaves the frame counter at zero.
C10_AsWritten ==
    [][ last'.op = "Start" => FramesCounter' = 0 ]_vars

\* C10, amended: the frame counter never decreases while the device is
\* streaming; a delivered buffer adds one to it unless ExitEvent is signaled,
\* and then leaves it alone; Start( ) sets it to zero only when the moniker is
\* set and the background thread is not running, and leaves it alone otherwise;
\* nothing else changes it.
C10_FramesCounter ==
    [][ /\ Streaming => FramesCounter' >= FramesCounter
        /\ last'.op = "BufferCB" =>
             FramesCounter' = IF ExitEvent THEN FramesCounter ELSE FramesCounter + 1
        /\ last'.op = "Start" =>
             FramesCounter' = IF DeviceMoniker # "" /\ ~IsRunning THEN 0 ELSE FramesCounter
        /\ last'.op \notin { "BufferCB", "Start" } => FramesCounter' = FramesCounter ]_vars

\* Start( ) on a streaming source succeeded and the frames counted so far are kept.
C10_Witness ==
    /\ last.op = "Start"
    /\ last.ret = "SuccessCode"
    /\ Streaming
    /\ FramesCounter > 0

\* C11: while the background thread exists, no step changes the device moniker,
\* the requested resolution or the requested frame rate: SetDeviceMoniker and
\* SetResolution are refused, so what RunVideo( ) reads at every build is what
\* was stored when Start( ) created the thread.
C11_ConfigurationFrozen ==
    [][ /\ IsRunning => UNCHANGED << DeviceMoniker, Resolution, RequestedFps >>
        /\ ( IsRunning /\ last'.op \in { "SetDeviceMoniker", "SetResolution" } ) => last'.ret = FALSE
        /\ last'.op = "Start" => UNCHANGED << DeviceMoniker, Resolution, RequestedFps >> ]_vars

\* Another moniker was refused after Start( ) created the thread and before its first build.
C11_Witness ==
    /\ pc = "build"
    /\ last.op = "SetDeviceMoniker"
    /\ last.ret = FALSE
    /\ last.arg[1] # DeviceMoniker
    /\ FramesCounter = 0

\* C12 as written: whenever the device is streaming (and RunningSync is free)
\* both deferred property maps are empty.
C12_AsWritten ==
    ( Streaming /\ RunningSyncOwner = None ) =>
        ( VideoPropertiesToSet = EmptyMap /\ CameraPropertiesToSet = EmptyMap )

\* C12, amended: whenever the device is streaming and RunningSync is free, the
\* deferred map of every domain whose control handle the device offers is
\* empty (the map of a domain without handle keeps its entries); a map gains or
\* changes an entry only by a set call on a device that is not streaming, and
\* loses entries only in the step that enters streaming.
C12_MapsWhileStreaming ==
    /\ []( ( Streaming /\ RunningSyncOwner = None ) =>
             /\ VideoProcAmp  => VideoPropertiesToSet = EmptyMap
             /\ CameraControl => CameraPropertiesToSet = EmptyMap )
    /\ [][ /\ VideoPropertiesToSet' # VideoPropertiesToSet =>
                \/ ~Streaming /\ last'.op = "SetVideoProperty"
                \/ pc = "enterVideo" /\ VideoProcAmp' /\ VideoPropertiesToSet' = EmptyMap
           /\ CameraPropertiesToSet' # CameraPropertiesToSet =>
                \/ ~Streaming /\ last'.op = "SetCameraProperty"
                \/ pc = "enterCamera" /\ CameraControl' /\ CameraPropertiesToSet' = EmptyMap ]_vars

\* The device streams with video control only: the video map was drained, the
\* camera properties deferred before are still in their map.
C12_Witness ==
    /\ pc = "loop"
    /\ RunningSyncOwner = None
    /\ VideoProcAmp /\ VideoPropertiesToSet = EmptyMap
    /\ ~CameraControl /\ CameraPropertiesToSet # EmptyMap
    /\ last.op = "SetVideoProperty" /\ last.hw # << >>

\* what an accessor returns for a device once its formats and pins are enumerated
DeviceResult( accessor, moniker ) ==
    CacheResult( accessor,
                 GetPinCapabilitiesAndConfigureIt( DeviceFormats( moniker ), DefaultCap, 0 ).caps,
                 ColletCrossbarVideoInputs( DeviceCrossbarInputs( moniker ) ),
                 DeviceCrossbarInputs( moniker ) # << >> )

\* C13: a SetDeviceMoniker( ) that returns true leaves the three caches empty /
\* false and InfoCollectedEvent reset; an accessor called with the event reset,
\* a moniker and no background thread builds the graph anew; and an accessor
\* never returns anything but the empty result or what the current device enumerates.
C13_CachesFollowMoniker ==
    /\ [][ /\ ( last'.op = "SetDeviceMoniker" /\ ~IsRunning ) =>
                /\ last'.ret = TRUE
                /\ Capabilities' = << >> /\ VideoPins' = << >> /\ IsCrossbarAvailable' = FALSE
                /\ InfoCollectedEvent' = FALSE
           /\ ( last'.op \in Accessors /\ ~InfoCollectedEvent /\ ~IsRunning /\ DeviceMoniker # "" ) =>
                ( Len( last'.hw ) >= 1 /\ last'.hw[1][1] = "build" ) ]_vars
    /\ []( ( last.op \in Accessors /\ waiter = None ) =>
             last.ret \in { EmptyResult( last.op ), DeviceResult( last.op, DeviceMoniker ) } )

\* The moniker was changed after a graph had been built: nothing of it is left.
C13_Witness ==
    /\ last.op = "SetDeviceMoniker"
    /\ last.ret = TRUE
    /\ DeviceMoniker = "camB"
    /\ NeedToSetVideoInput
    /\ Capabilities = << >> /\ VideoPins = << >> /\ ~IsCrossbarAvailable
    /\ ~InfoCollectedEvent

C15_DiscoveryPaths ==
    /\ [][ /\ ( last'.op \in Accessors /\ waiter = None /\ DeviceMoniker = "" ) =>
                /\ waiter' = None
                /\ last'.ret = EmptyResult( last'.op )
                /\ last'.hw = << >>
                /\ UNCHANGED << cacheVars, InfoCollectedEvent >>
           /\ ( last'.op \in Accessors /\ waiter = None /\ DeviceMoniker # "" /\
                ~InfoCollectedEvent /\ ~IsRunning ) =>
                /\ waiter' = None
                /\ Cardinality( { i \in 1..Len( last'.hw ) : last'.hw[i][1] = "build" } ) = 1
                /\ InfoCollectedEvent'
                /\ last'.ret = CacheResult( last'.op, Capabilities', VideoPins', IsCrossbarAvailable' )
                /\ pc' = None
           /\ ( last'.op \in Accessors /\ waiter = None /\ DeviceMoniker # "" /\
                ~InfoCollectedEvent /\ IsRunning ) =>
                /\ waiter' = last'.op
                /\ last'.hw = << >>
                /\ UNCHANGED << cacheVars, InfoCollectedEvent >>
           /\ ( waiter \in Accessors /\ waiter' = None ) =>
                /\ last'.op = waiter
                /\ last'.hw = << >>
                /\ last'.ret = IF InfoCollectedEvent
                               THEN CacheResult( waiter, Capabilities, VideoPins, IsCrossbarAvailable )
                               ELSE EmptyResult( waiter )
                /\ UNCHANGED << cacheVars, InfoCollectedEvent >> ]_vars
    /\ \A accessor \in Accessors : ( waiter = accessor ) ~> ( waiter = None )

\* The pin list was asked for while the background thread could not find the
\* device; the wait timed out and the list came back empty although pins were cached.
C15_Witness ==
    /\ last.op = "GetInputVideoPins"
    /\ waiter = None
    /\ last.ret = << >>
    /\ VideoPins # << >>
    /\ IsRunning
    /\ ~InfoCollectedEvent

-----------------------------------------------------------------------------
(* C16 *)

\* C16: every attempt of the background loop signals InfoCollectedEvent, whether
\* it succeeded or failed: when the thread has reached the back-off that follows
\* an attempt, the event is signaled (so an accessor waiting on the running
\* thread is released by that attempt).
C16_AsWritten ==
    ( pc = "backoff" ) => InfoCollectedEvent

-----------------------------------------------------------------------------
(* C17 *)

\* C17: there is never a second background thread: a Start( ) issued while the
\* background thread exists returns SuccessCode and leaves the thread where it
\* is, and the frame counter, the exit event and the info-collected event as they
\* are; a thread is created by Start( ) only when there is none.
C17_StartWhileRunning ==
    [][ ( lastCall'[1] = "Start" /\ IsRunning ) =>
          /\ last'.ret = "SuccessCode"
          /\ UNCHANGED << pc, FramesCounter, ExitEvent, InfoCollectedEvent >> ]_vars

\* Start( ) returned SuccessCode on a streaming device that was asked to stop and
\* has delivered frames: the counter and the exit event are as they were.
C17_Witness ==
    /\ lastCall[1] = "Start"
    /\ last.ret = "SuccessCode"
    /\ pc = "loop"
    /\ ExitEvent
    /\ InfoCollectedEvent
    /\ FramesCounter > 0

-----------------------------------------------------------------------------
(* C18 *)

\* C18 as written: from the streaming loop the background thread comes to an
\* end both after the exit event is seen and after the device was lost.
C18_AsWritten ==
    /\ ( pc = "loop" /\ ExitEvent ) ~> ( pc = None )
    /\ ( pc = "nfLost" ) ~> ( pc = None )

\* C18, amended: after the exit event is seen in the streaming loop the
\* background thread comes to an end. After the device was lost the loop is left
\* (handles released, running flag and event cleared), but the thread goes to the
\* back-off and, unless stop was requested, builds the graph again: the thread
\* ends only through the exit event or a fatal failure.
C18_LeavingStreaming ==
    /\ ( pc = "loop" /\ ExitEvent ) ~> ( pc = None )
    /\ ( pc = "nfLost" ) ~>
         ( pc = "backoff" /\ ~DeviceIsRunning /\ ~DeviceIsRunningEvent /\ ~VideoProcAmp /\ ~CameraControl )
    /\ [][ ( pc = "backoff" /\ pc' # pc ) => pc' = IF ExitEvent THEN "finish" ELSE "build" ]_vars
    /\ [][ ( pc # "finish" /\ pc' = "finish" ) => ( pc = "nfFatal" \/ ( pc = "backoff" /\ ExitEvent ) ) ]_vars
    /\ [][ ( pc # None /\ pc' = None ) => pc = "finish" ]_vars

\* The thread builds the graph again after it delivered frames and lost the
\* device, with no stop requested: it is still running.
C18_Witness ==
    /\ pc = "build"
    /\ FramesCounter > 0
    /\ ~ExitEvent
    /\ IsRunning
    /\ ~DeviceIsRunning

-----------------------------------------------------------------------------
(* C19 *)

\* C19: in a streaming run a pass that does not find the device, cannot prepare
\* it or cannot run the graph reports the failure as not fatal and goes to the
\* back-off, and the back-off is followed by a new build of the graph unless the
\* exit event is set; a pass that cannot create the graph objects reports a fatal
\* failure and ends the loop; the run of RunVideo( ) inside a discovery accessor
\* makes one attempt, whatever its outcome, and leaves no thread behind.
C19_RetryLoop ==
    /\ [][ ( pc \in { "nfNoDevice", "nfPrepare", "nfBusy" } /\ pc' # pc ) =>
             /\ pc' = "backoff"
             /\ \A k \in 1..Len( last'.note ) : last'.note[k][3] \in
                  { "Did not find video device. Unplugged?", "Failed preparing device to run.",
                    "Failed runnning device. Might be busy." } ]_vars
    /\ [][ ( pc = "backoff" /\ pc' # pc ) =>
             /\ pc' = IF ExitEvent THEN "finish" ELSE "build"
             /\ last'.hw = << >> ]_vars
    /\ [][ ( pc = "build" /\ pc' # pc ) =>
             \E outcome \in BuildOutcomes : last'.hw[1] = << "build", outcome >> ]_vars
    /\ [][ ( pc = "nfFatal" /\ pc' # pc ) =>
             /\ pc' = "finish"
             /\ Listener # NoListener =>
                  last'.note = << << Listener, "OnError", "Fatal: Failed DirectShow initialization" >> >> ]_vars
    /\ [][ ( pc = "finish" /\ pc' # pc ) => ( pc' = None /\ last'.hw = << >> ) ]_vars
    /\ [][ ( lastCall'[1] \in Accessors /\ last'.hw # << >> ) =>
             /\ \E outcome \in BuildOutcomes : last'.hw[1] = << "build", outcome >>
             /\ \A k \in 2..Len( last'.hw ) : last'.hw[k][1] # "build"
             /\ pc = None /\ pc' = None ]_vars

\* The back-off has just ended in a new build after a pass that did not find the
\* device, with a listener that was told so and no stop requested.
C19_Witness ==
    /\ pc = "build"
    /\ lastCall[1] = "RunVideo"
    /\ last.hw = << >>
    /\ ~InfoCollectedEvent
    /\ ~ExitEvent
    /\ Listener # NoListener

-----------------------------------------------------------------------------
(* C20 *)

\* the positions of the formats of a device that the selection looks at
\* (a width and more than 12 bits per pixel) and that have the requested size
SameSize( formats, capToSet ) ==
    { k \in 1..Len( formats ) :
        /\ formats[k].width # 0 /\ formats[k].bits > 12
        /\ formats[k].width = capToSet.width /\ formats[k].height = capToSet.height }

\* the SetFormat( ) calls the claim asks of one build: the requested format if
\* the device lists it, else the first listed format of the requested size, else none
SetFormatExpected( formats, capToSet, requestedFps ) ==
    LET same  == SameSize( formats, capToSet )
        exact == { k \in same : CapEq( formats[k], capToSet ) }
    IN  IF exact # {}
        THEN << << "SetFormat", OverrideAverageTimePerFrame( capToSet, requestedFps ) >> >>
        ELSE IF same # {}
        THEN << << "SetFormat", OverrideAverageTimePerFrame(
                                    formats[CHOOSE k \in same : \A j \in same : k <= j], requestedFps ) >> >>
        ELSE << >>

\* C20 as written: a build that bound the source filter and found no format of
\* the requested size sets no format and does not go on to prepare the graph.
C20_AsWritten ==
    [][ ( pc = "build" /\ last'.hw = << << "build", "ok" >> >> ) => pc' # "prepare" ]_vars

\* C20, amended: a build that bound the source filter hands to SetFormat( ) the
\* requested format if the device lists it anywhere among its usable formats,
\* else the first usable format of the requested width and height, else calls
\* no SetFormat( ); in all three cases the build goes on to prepare the graph.
C20_FormatSelection ==
    [][ ( pc = "build" /\ pc' # pc /\ last'.hw[1] = << "build", "ok" >> ) =>
          /\ SubSeq( last'.hw, 2, Len( last'.hw ) ) =
               SetFormatExpected( DeviceFormats( DeviceMoniker ), Resolution, RequestedFps )
          /\ pc' = "prepare" ]_vars

\* The graph is about to be prepared after a build that called no SetFormat( ):
\* the device lists usable formats, none of them of the requested size.
C20_Witness ==
    /\ pc = "prepare"
    /\ last.hw = << << "build", "ok" >> >>
    /\ Capabilities # << >>
    /\ Resolution # DefaultCap

-----------------------------------------------------------------------------
(* C21 *)

\* the positions of the video formats of more than 12 bits per pixel that no
\* earlier position lists as well
FirstUsable( formats ) ==
    { k \in 1..Len( formats ) :
        /\ formats[k].width # 0
        /\ formats[k].bits > 12
        /\ \A j \in 1..( k - 1 ) : formats[j] # formats[k] }

\* the list the claim asks for: those formats in the order of their positions
CapabilitiesExpected( formats ) ==
    LET kept     == FirstUsable( formats )
        nth( n ) == CHOOSE k \in kept : Cardinality( { j \in kept : j < k } ) = n - 1
    IN  [ n \in 1..Cardinality( kept ) |-> formats[nth( n )] ]

\* C21: the capability list written by a build is the list of the device's
\* distinct video formats of more than 12 bits per pixel, each once, in the order
\* of first occurrence; no format of 12 bits or less is in the list or is handed
\* to SetFormat( ), whatever format was requested.
C21_CapabilityList ==
    /\ [][ ( pc = "build" /\ pc' # pc /\ last'.hw[1] = << "build", "ok" >> ) =>
             /\ Capabilities' = CapabilitiesExpected( DeviceFormats( DeviceMoniker ) )
             /\ \A k \in 1..Len( Capabilities' ) : Capabilities'[k].bits > 12
             /\ \A k \in 2..Len( last'.hw ) : last'.hw[k][2].bits > 12 ]_vars
    /\ []( Capabilities # << >> => Capabilities = CapabilitiesExpected( DeviceFormats( DeviceMoniker ) ) )

\* A build on camA, which lists a 12-bit format first and one format twice, with
\* that 12-bit format requested: the list has four entries and SetFormat( ) got
\* the 16-bit format of the same size.
C21_Witness ==
    /\ pc = "prepare"
    /\ DeviceMoniker = "camA"
    /\ Resolution.bits = 12
    /\ Len( Capabilities ) = 4
    /\ Capabilities[1].bits = 16
    /\ last.hw = << << "build", "ok" >>, << "SetFormat", Cap( 640, 480, 16, 30, 30, 5 ) >> >>

-----------------------------------------------------------------------------
(* C22 *)

\* C22: for every width and height and every buffer whose rows are bufferLen / height
\* bytes apart, the image's pixel at ( x, height - 1 - y ) is the buffer's pixel at
\* ( x, y ) with its first and third byte exchanged and its middle byte unchanged.
C22_ConvertedImage ==
    mImage # << >> =>
      LET pBuffer   == sample[1]
          srcStride == sample[2] \div mHeight
      IN  /\ Len( mImage ) = mHeight
          /\ \A y \in 0..( mHeight - 1 ) :
               LET row == mImage[( mHeight - 1 - y ) + 1]
               IN  /\ Len( row ) = 3 * mWidth
                   /\ \A x \in 0..( mWidth - 1 ) :
                        /\ At( row, 3 * x )     = At( pBuffer, y * srcStride + 3 * x + 2 )
                        /\ At( row, 3 * x + 1 ) = At( pBuffer, y * srcStride + 3 * x + 1 )
                        /\ At( row, 3 * x + 2 ) = At( pBuffer, y * srcStride + 3 * x )

\* An image of two rows of 33 pixels made by the scalar loop from a buffer with
\* padded rows: the rows differ and the first pixel's outer bytes differ.
C22_Witness ==
    /\ mImage # << >>
    /\ ~mSSSE3supported
    /\ mWidth = 33
    /\ mHeight = 2
    /\ sample[2] = 200
    /\ mImage[1] # mImage[2]
    /\ At( mImage[1], 0 ) # At( mImage[1], 2 )
    /\ At( mImage[2], 0 ) = At( sample[1], 2 )

-----------------------------------------------------------------------------
(* C23 *)

\* C23: the scalar loop and the loop over packs of 16 pixels with its scalar
\* remainder write the same rows for the same buffer, for every width (below 16,
\* multiples of 16, others), and the image made is that one.
C23_PathsAgree ==
    sample[1] # << >> =>
      LET scalar == ConvertBuffer( sample[1], sample[2], mWidth, mHeight, FALSE )
          vector == ConvertBuffer( sample[1], sample[2], mWidth, mHeight, TRUE )
      IN  /\ scalar = vector
          /\ mImage # << >> => mImage = scalar /\ mImage = vector

\* An image of 17 pixels in a row made by the vector path: one pack and one pixel.
C23_Witness ==
    /\ mImage # << >>
    /\ mSSSE3supported
    /\ mWidth = 17
    /\ mHeight = 2
    /\ Len( mImage[1] ) = 51
    /\ At( mImage[2], 15 ) = At( sample[1], 17 )
    /\ At( mImage[2], 48 ) = At( sample[1], 50 )

-----------------------------------------------------------------------------
(* C24 *)

\* C24: SetVideoInput can be called in every state; it stores the pin and raises
\* NeedToSetVideoInput. Only a turn of the streaming loop lowers the flag, and
\* that turn, if there is a crossbar, routes the stored pin and stores the pin
\* the crossbar reports as routed (otherwise pin and crossbar stay as they are).
C24_VideoInput ==
    /\ []( \A input \in PinInputs : ENABLED SetVideoInput( input ) )
    /\ [][ ( lastCall'[1] = "SetVideoInput" ) =>
             /\ VideoInput' = last'.arg[1]
             /\ NeedToSetVideoInput' ]_vars
    /\ [][ ( NeedToSetVideoInput /\ ~NeedToSetVideoInput' ) =>
             /\ pc = "loop" /\ pc' = "loop" /\ DeviceIsRunning /\ ~ExitEvent
             /\ LET pins == DeviceCrossbarInputs( DeviceMoniker )
                IN  IF IsCrossbarAvailable
                    THEN /\ crossbarInput' = SetCurrentCrossbarInput( pins, crossbarInput, VideoInput )
                         /\ last'.hw = RouteCalls( pins, VideoInput )
                         /\ VideoInput' = GetCurrentCrossbarInput( pins, crossbarInput' )
                    ELSE /\ crossbarInput' = crossbarInput
                         /\ VideoInput' = VideoInput
                         /\ last'.hw = << >> ]_vars

\* While streaming from camA a caller asked for its second input, and a turn of the
\* loop has routed it and lowered the flag.
C24_Witness ==
    /\ pc = "loop"
    /\ DeviceMoniker = "camA"
    /\ ~NeedToSetVideoInput
    /\ crossbarInput = 1
    /\ VideoInput = [ index |-> 1, type |-> "SVideo", isInput |-> TRUE ]
    /\ lastCall[1] = "RunVideo"
    /\ last.hw = << << "Route", 1 >> >>

-----------------------------------------------------------------------------
(* C29 *)

\* a turn of the loop that ends Streaming: ExitEvent was signaled, or the device was lost
EndsStreaming == pc = "loop" /\ pc' \in { "leave", "nfLost" }

\* C29 as written: a request that is pending when Streaming ends is applied to the
\* crossbar before the loop is left.
C29_AsWritten ==
    [][ ( EndsStreaming /\ NeedToSetVideoInput /\ IsCrossbarAvailable ) =>
          /\ ~NeedToSetVideoInput'
          /\ crossbarInput' = SetCurrentCrossbarInput( DeviceCrossbarInputs( DeviceMoniker ), crossbarInput, VideoInput ) ]_vars

\* C29: the turn of the loop that ends Streaming (stop signal or device lost)
\* never routes: crossbar, stored pin and flag stay as they are, so a pending
\* request stays pending; if the thread builds again, the first turn of the next
\* streaming loop applies it.
C29_PendingRequestAtExit ==
    /\ [][ EndsStreaming =>
             /\ crossbarInput' = crossbarInput
             /\ VideoInput' = VideoInput
             /\ NeedToSetVideoInput' = NeedToSetVideoInput
             /\ last'.hw = << >> ]_vars
    /\ [][ ( pc \in { "leave", "nfLost", "backoff", "build", "prepare", "enterVideo", "enterCamera",
                      "nfVideoCfg", "nfCameraCfg", "finish" } /\ NeedToSetVideoInput ) =>
             /\ NeedToSetVideoInput'
             /\ crossbarInput' = crossbarInput ]_vars

\* Streaming from camA has ended on the stop signal while the request for the
\* second input was pending: the first input is still routed.
C29_Witness ==
    /\ pc = "leave"
    /\ ExitEvent
    /\ DeviceMoniker = "camA"
    /\ IsCrossbarAvailable
    /\ NeedToSetVideoInput
    /\ VideoInput = [ index |-> 1, type |-> "SVideo", isInput |-> TRUE ]
    /\ crossbarInput = 0
    /\ lastCall[1] = "RunVideo"

-----------------------------------------------------------------------------
(* C30 *)

\* the pin names an input of the crossbar: its index and type are those of one
CrossbarInputMatches( pins, videoInput ) ==
    \E i \in 1..Len( pins ) : pins[i].index = videoInput.index /\ pins[i].type = videoInput.type

\* the stored pin is of unknown type, is not an input, or names no input of the crossbar
BadPin ==
    \/ VideoInput.type = "Unknown"
    \/ ~VideoInput.isInput
    \/ ~CrossbarInputMatches( DeviceCrossbarInputs( DeviceMoniker ), VideoInput )

\* C30: when the stored pin is of unknown type, is not an input, or matches no
\* input of the crossbar by index and type, Route( ) is not called and the
\* routing of the crossbar stays as it is; and the routing changes in no other
\* step than a turn of the loop with a pin that passes these tests.
C30_NeverRouted ==
    /\ [][ ( pc = "loop" /\ lastCall'[1] = "RunVideo" /\ BadPin ) =>
             /\ crossbarInput' = crossbarInput
             /\ last'.hw = << >> ]_vars
    /\ [][ ( crossbarInput' # crossbarInput ) =>
             /\ ~BadPin
             /\ pc = "loop" /\ NeedToSetVideoInput /\ IsCrossbarAvailable
             /\ crossbarInput' = VideoInput.index ]_vars

\* A turn of the loop with the second input routed and a pending request for
\* index 1 as a Composite pin, which camA does not have: the flag is lowered,
\* nothing is routed and the stored pin is the second input again.
C30_Witness ==
    /\ pc = "loop"
    /\ DeviceMoniker = "camA"
    /\ lastCall[1] = "RunVideo"
    /\ last.hw = << >>
    /\ crossbarInput = 1
    /\ ~NeedToSetVideoInput
    /\ VideoInput = [ index |-> 1, type |-> "SVideo", isInput |-> TRUE ]
    /\ last.arg = << [ index |-> 1, type |-> "Composite", isInput |-> TRUE ] >>

-----------------------------------------------------------------------------
(* C25 *)

\* C25: once the stop signal is set while the background thread runs, the signal
\* stays set until the thread has ended, the thread ends (whichever wait it is
\* in: the turn of the streaming loop, the back-off, or Sync held by an accessor),
\* and IsRunning( ) becomes false, at which point a caller blocked in
\* WaitForStop( ) can return; a waiting accessor returns as well.
C25_StopTerminates ==
    /\ [][ ( ExitEvent /\ IsRunning /\ IsRunning' ) => ExitEvent' ]_vars
    /\ ( ExitEvent /\ IsRunning ) ~> ~IsRunning
    /\ []( ( waiter = "Join" /\ ~IsRunning ) => ENABLED WaitForStopReturn )
    /\ [][ ( waiter = "Join" /\ waiter' = None ) => ( ~IsRunning /\ lastCall'[1] = "WaitForStop" ) ]_vars
    /\ ( waiter = "GetCapabilities" ) ~> ( waiter # "GetCapabilities" )

\* WaitForStop( ) has signaled stop and waits in Join( ) while the background
\* thread is still in its streaming loop.
C25_Witness ==
    /\ waiter = "Join"
    /\ ExitEvent
    /\ pc = "loop"
    /\ DeviceIsRunning
    /\ lastCall[1] = "WaitForStop"
    /\ last.ret = "blocked"

-----------------------------------------------------------------------------
(* C26 *)

\* C26: the streaming loop is left only towards the teardown, on the stop signal
\* or after the device was lost; the step that stops the graph has released both
\* interfaces and cleared DeviceIsRunning and DeviceIsRunningEvent; and whenever
\* the graph does not run IsVideoConfigSupported( ) and IsCameraConfigSupported( )
\* are false.
C26_LeavingReleases ==
    /\ [][ ( pc = "loop" /\ pc' # "loop" ) =>
             ( ( pc' = "leave" /\ ExitEvent ) \/ ( pc' = "nfLost" /\ ~ExitEvent ) ) ]_vars
    /\ [][ ( pc = "nfLost" /\ pc' # pc ) => pc' = "leave" ]_vars
    /\ [][ ( pc = "leave" /\ pc' # pc ) =>
             /\ ~VideoProcAmp' /\ ~CameraControl'
             /\ ~DeviceIsRunning' /\ ~DeviceIsRunningEvent'
             /\ last'.hw = << << "Stop" >> >>
             /\ ~GraphRunning' ]_vars
    /\ [][ ( GraphRunning /\ ~GraphRunning' ) => ( pc = "leave" /\ last'.hw = << << "Stop" >> >> ) ]_vars
    /\ []( ~GraphRunning =>
             /\ ~IsVideoConfigSupported /\ ~IsCameraConfigSupported
             /\ ~DeviceIsRunning /\ ~DeviceIsRunningEvent )

\* The graph was stopped after the device was lost (no stop was requested).
C26_Witness ==
    /\ pc = "backoff"
    /\ ~ExitEvent
    /\ lastCall[1] = "RunVideo"
    /\ last.hw = << << "Stop" >> >>
    /\ ~IsVideoConfigSupported
    /\ ~IsCameraConfigSupported
    /\ ~DeviceIsRunning
    /\ FramesCounter > 0

-----------------------------------------------------------------------------
(* C27 *)

\* the calls that take RunningSync
PropertyCalls ==
    { "SetVideoProperty", "SetCameraProperty", "GetVideoProperty", "GetVideoPropertyRange",
      "GetCameraProperty", "GetCameraPropertyRange" }

\* the positions of the background thread inside the scoped lock of the entry
EntryPositions == { "enterCamera", "nfVideoCfg", "nfCameraCfg" }

\* C27 as written: a property call sees either the running flag false and both
\* handles absent, or the running flag true and every deferred property applied
\* (both maps empty).
C27_AsWritten ==
    [][ ( last'.op \in PropertyCalls ) =>
          \/ ~DeviceIsRunning /\ ~VideoProcAmp /\ ~CameraControl
          \/ DeviceIsRunning /\ VideoPropertiesToSet = EmptyMap /\ CameraPropertiesToSet = EmptyMap ]_vars

\* C27, amended: the background thread is between setting the running flag and
\* the end of the deferred camera properties only while it holds RunningSync, and
\* a property call is made only when RunningSync is free; then either the running
\* flag is false and both handles are absent, or the flag is true, both handles
\* have been asked for and the deferred properties of every handle obtained have
\* been applied (its map is empty; the map of a handle not obtained keeps its entries).
C27_LockedView ==
    /\ []( pc \in EntryPositions => RunningSyncOwner = "RunVideo" )
    /\ []( RunningSyncOwner = None =>
             \/ /\ ~DeviceIsRunning /\ ~VideoProcAmp /\ ~CameraControl
                /\ pc \notin { "loop", "nfLost", "leave" }
             \/ /\ DeviceIsRunning
                /\ pc \in { "loop", "nfLost", "leave" }
                /\ VideoProcAmp  => VideoPropertiesToSet = EmptyMap
                /\ CameraControl => CameraPropertiesToSet = EmptyMap )
    /\ [][ ( last'.op \in PropertyCalls ) => ( RunningSyncOwner = None /\ pc \notin EntryPositions ) ]_vars

\* A camera property was set right after the entry into streaming, on a device
\* that offers the camera handle only: it went to the hardware, and the deferred
\* video properties are still in their map.
C27_Witness ==
    /\ lastCall[1] = "SetCameraProperty"
    /\ last.hw # << >>
    /\ pc = "loop"
    /\ DeviceIsRunning
    /\ CameraControl
    /\ ~VideoProcAmp
    /\ VideoPropertiesToSet # EmptyMap
    /\ CameraPropertiesToSet = EmptyMap
    /\ RunningSyncOwner = None

-----------------------------------------------------------------------------
(* C28 *)

\* the listener calls of a step that are OnError with this message
ErrorsTold( note, message ) ==
    { i \in 1..Len( note ) : note[i][2] = "OnError" /\ note[i][3] = message }

\* C28: when an application of a deferred property fails on entering Streaming,
\* every entry of that domain's map has still been applied, the listener (if
\* there is one) is told once per domain, not as a fatal error, and the entry
\* goes on: the running flag stays set, the camera properties follow the video
\* properties, and the streaming loop is entered. These two messages are sent
\* nowhere else.
C28_ConfigFailure ==
    /\ [][ /\ ( pc = "enterVideo" /\ pc' = "nfVideoCfg" ) =>
                /\ VideoPropertiesToSet # EmptyMap
                /\ AppliedOnce( "video", VideoPropertiesToSet, last'.hw )
                /\ DeviceIsRunning' /\ VideoProcAmp'
           /\ ( pc = "enterCamera" /\ pc' = "nfCameraCfg" ) =>
                /\ CameraPropertiesToSet # EmptyMap
                /\ AppliedOnce( "camera", CameraPropertiesToSet, last'.hw )
                /\ DeviceIsRunning' /\ CameraControl' ]_vars
    /\ [][ /\ ( pc = "nfVideoCfg" /\ pc' # pc ) =>
                /\ pc' = "enterCamera"
                /\ last'.note = IF Listener = NoListener THEN << >>
                                ELSE << << Listener, "OnError", "Failed applying video configuration" >> >>
                /\ DeviceIsRunning' /\ DeviceIsRunningEvent' /\ VideoProcAmp'
           /\ ( pc = "nfCameraCfg" /\ pc' # pc ) =>
                /\ pc' = "loop"
                /\ last'.note = IF Listener = NoListener THEN << >>
                                ELSE << << Listener, "OnError", "Failed applying camera configuration" >> >>
                /\ DeviceIsRunning' /\ DeviceIsRunningEvent' /\ CameraControl' ]_vars
    /\ [][ /\ ( pc = "enterCamera" /\ pc' # pc ) => pc' \in { "loop", "nfCameraCfg" }
           /\ ( lastCall'[1] = "RunVideo" /\ ErrorsTold( last'.note, "Failed applying video configuration" ) # {} ) =>
                pc = "nfVideoCfg"
           /\ ( lastCall'[1] = "RunVideo" /\ ErrorsTold( last'.note, "Failed applying camera configuration" ) # {} ) =>
                pc = "nfCameraCfg" ]_vars
    /\ []( pc \in { "nfVideoCfg", "enterCamera", "nfCameraCfg" } => DeviceIsRunning /\ DeviceIsRunningEvent )

\* The listener was told that the camera configuration failed, and the streaming
\* loop was entered with the device running and the deferred map emptied.
C28_Witness ==
    /\ pc = "loop"
    /\ lastCall[1] = "RunVideo"
    /\ Listener # NoListener
    /\ last.note = << << Listener, "OnError", "Failed applying camera configuration" >> >>
    /\ DeviceIsRunning
    /\ DeviceIsRunningEvent
    /\ CameraControl
    /\ CameraPropertiesToSet = EmptyMap
    /\ RunningSyncOwner = None

-----------------------------------------------------------------------------
(* C31 *)

\* the background thread is inside NotifyError( ), which takes Sync
TakesSync == pc \in DOMAIN NotifySites /\ pc' # pc /\ lastCall'[1] = "RunVideo"

\* C31 as written: no path takes Sync while it holds RunningSync.
C31_AsWritten ==
    [][ TakesSync => RunningSyncOwner # "RunVideo" ]_vars

\* C31, amended: the only path on which a thread holds both locks is the
\* background thread's NotifyError( ) for a failed deferred configuration, inside
\* the scoped lock of the entry into streaming: there RunningSync was taken first
\* and Sync second, and the step waits until Sync is free. No holder of Sync (an
\* accessor in its wait) holds or takes RunningSync, and the calls that take
\* RunningSync take no Sync.
C31_LockOrder ==
    /\ [][ ( TakesSync /\ RunningSyncOwner = "RunVideo" ) =>
             /\ pc \in { "nfVideoCfg", "nfCameraCfg" }
             /\ SyncOwner = None
             /\ SyncOwner' = None ]_vars
    /\ [][ TakesSync => SyncOwner = None ]_vars
    /\ []( RunningSyncOwner \in { None, "RunVideo" } )
    /\ []( SyncOwner \in { None } \cup Accessors )
    /\ []( SyncOwner # None => ( waiter = SyncOwner /\ RunningSyncOwner # SyncOwner ) )
    /\ [][ ( last'.op \in PropertyCalls ) => ( RunningSyncOwner = None /\ SyncOwner' = SyncOwner ) ]_vars

\* The listener was told of the failed video configuration while the background
\* thread held RunningSync: the entry goes on with the camera interface.
C31_Witness ==
    /\ pc = "enterCamera"
    /\ RunningSyncOwner = "RunVideo"
    /\ SyncOwner = None
    /\ lastCall[1] = "RunVideo"
    /\ Listener # NoListener
    /\ last.note = << << Listener, "OnError", "Failed applying video configuration" >> >>
    /\ DeviceIsRunning

-----------------------------------------------------------------------------
(* C32 *)

\* The first half of one pass of the do-loop: the graph objects are created and
\* the source filter is bound; the caches are not written yet.
RunVideoBind ==
    /\ pc = "build"
    /\ \E outcome \in BuildOutcomes :
      /\ pc' = CASE outcome = "basicInitializationFailed" -> "nfFatal"
                 [] outcome = "noSourceFilter" -> "nfNoDevice"
                 [] outcome = "ok" -> "collect"
      /\ NeedToSetVideoInput' = ( outcome # "basicInitializationFailed" \/ NeedToSetVideoInput )
      /\ lastCall' = Out( "RunVideo", << >>, "void", << << "build", outcome >> >>, << >> )
    /\ UNCHANGED << DeviceMoniker, Resolution, RequestedFps, VideoInput, cacheVars, InfoCollectedEvent,
                    Listener, ExitEvent, FramesCounter, runVars, propVars, lockVars, waiter,
                    crossbarInput, seen >>
    /\ UNCHANGED grabberVars

\* The second half: VideoPins, IsCrossbarAvailable and Capabilities are assigned,
\* with no lock held, and InfoCollectedEvent is signaled.
RunVideoCollect ==
    /\ pc = "collect"
    /\ IF DeviceCrossbarInputs( DeviceMoniker ) # << >>
       THEN /\ VideoPins' = ColletCrossbarVideoInputs( DeviceCrossbarInputs( DeviceMoniker ) )
            /\ IsCrossbarAvailable' = TRUE
       ELSE UNCHANGED << VideoPins, IsCrossbarAvailable >>
    /\ Capabilities' = GetPinCapabilitiesAndConfigureIt(
                           DeviceFormats( DeviceMoniker ), Resolution, RequestedFps ).caps
    /\ InfoCollectedEvent' = TRUE
    /\ pc' = "prepare"
    /\ lastCall' = Out( "RunVideo", << >>, "void",
                        Tail( BuildCalls( "ok", DeviceMoniker, Resolution, RequestedFps ) ), << >> )
    /\ UNCHANGED << configVars, Listener, ExitEvent, FramesCounter, runVars, propVars, lockVars,
                    waiter, crossbarInput, seen >>
    /\ UNCHANGED grabberVars

\* what a copy of a cache can give while the cache is being assigned: the list
\* up to any length, the flag with either value
TornResults( accessor ) ==
    LET whole == CacheResult( accessor, Capabilities, VideoPins, IsCrossbarAvailable )
    IN  IF accessor = "IsCrossbarSupported" THEN { TRUE, FALSE }
        ELSE { SubSeq( whole, 1, n ) : n \in 0 .. Len( whole ) }

\* An accessor whose CollectInfo( ) finds InfoCollectedEvent signaled while the
\* background thread assigns the caches: it holds Sync, the thread does not.
CollectInfoWhileCollecting( accessor ) ==
    /\ pc = "collect"
    /\ SyncOwner = None
    /\ waiter = None
    /\ DeviceMoniker # ""
    /\ InfoCollectedEvent
    /\ \E ret \in TornResults( accessor ) :
         /\ lastCall' = Out( accessor, << >>, ret, << >>, << >> )
         /\ seen' = [ seen EXCEPT ![accessor] = [ valid |-> TRUE, fresh |-> TRUE, ret |-> ret ] ]
    /\ UNCHANGED << configVars, cacheVars, InfoCollectedEvent, Listener, ExitEvent, FramesCounter,
                    runVars, propVars, pc, lockVars, waiter, crossbarInput >>
    /\ UNCHANGED grabberVars

\* The source with the pass of the do-loop taken in two steps and callers that
\* start, stop and ask for the discovery results.
NextCaches ==
    \/ RunVideoBind
    \/ RunVideoCollect
    \/ ( pc # "build" /\ RunVideo )
    \/ Start
    \/ SignalToStop
    \/ \E accessor \in Accessors : ( ( pc = "collect" => ~InfoCollectedEvent ) /\ CollectInfo( accessor ) )
    \/ \E accessor \in Accessors : CollectInfoWhileCollecting( accessor )
    \/ \E accessor \in Accessors : CollectInfoReturn( accessor )

SpecCaches == Init /\ [][NextCaches]_vars

\* an accessor copies a cache in this step
ReadsCache == lastCall'[1] \in Accessors /\ SyncOwner' = None /\ DeviceMoniker # "" /\ InfoCollectedEvent'

\* C32 as written: no accessor reads a cache while the background thread is
\* between the binding of the source filter and InfoCollectedEvent.Signal( ),
\* where it assigns the caches.
C32_AsWritten ==
    [][ ReadsCache => pc # "collect" ]_vars

-----------------------------------------------------------------------------
(* C33 *)

\* BufferCB( ) up to the conversion: the callback takes Sync and counts the frame
\* unless ExitEvent is signaled.
BufferCBEnter ==
    /\ GraphRunning
    /\ SyncOwner = None
    /\ ExitEvent \/ FramesCounter < MaxFrames
    /\ SyncOwner' = "BufferCB"
    /\ FramesCounter' = IF ~ExitEvent THEN FramesCounter + 1 ELSE FramesCounter
    /\ lastCall' = Out( "BufferCB", << >>, "locked", << >>, << >> )
    /\ UNCHANGED << configVars, cacheVars, InfoCollectedEvent, Listener, ExitEvent,
                    runVars, propVars, pc, RunningSyncOwner, waiter, crossbarInput, seen >>
    /\ UNCHANGED grabberVars

\* BufferCB( ) from the conversion to its return: the listener gets the image of
\* a valid buffer, Sync is released.
BufferCBLeave( bufferValid ) ==
    /\ SyncOwner = "BufferCB"
    /\ SyncOwner' = None
    /\ lastCall' = Out( "BufferCB", << bufferValid >>, 0, << >>,
                    IF ( Listener # NoListener ) /\ bufferValid
                    THEN << << Listener, "OnNewImage", "" >> >> ELSE << >> )
    /\ UNCHANGED << configVars, cacheVars, InfoCollectedEvent, Listener, ExitEvent, FramesCounter,
                    runVars, propVars, pc, RunningSyncOwner, waiter, crossbarInput, seen >>
    /\ UNCHANGED grabberVars

\* The source with the frame callback taken in two steps and callers that
\* start, stop and change every part of the configuration.
NextFrames ==
    \/ RunVideo
    \/ BufferCBEnter
    \/ \E bufferValid \in BOOLEAN : BufferCBLeave( bufferValid )
    \/ Start
    \/ SignalToStop
    \/ \E listener \in Listeners \cup { NoListener } : SetListener( listener )
    \/ \E moniker \in Monikers : SetDeviceMoniker( moniker )
    \/ \E r \in ResolutionInputs : SetResolution( r[1], r[2] )
    \/ \E input \in { DefaultPin, DeviceCrossbarInputs( "camA" )[2] } : SetVideoInput( input )

SpecFrames == Init /\ [][NextFrames]_vars

\* the calls that change the configuration
ConfigCalls == { "SetDeviceMoniker", "SetResolution", "SetVideoInput", "SetListener" }

\* C33 as written: while a frame callback is in progress no configuration call
\* changes the device identity, the resolution request, the routing request or
\* the listener.
C33_AsWritten ==
    [][ ( SyncOwner = "BufferCB" /\ lastCall'[1] \in ConfigCalls ) =>
          UNCHANGED << configVars, Listener >> ]_vars

-----------------------------------------------------------------------------
(* C34 *)

\* an accessor runs RunVideo( false ) in this step
Discovering == lastCall'[1] \in Accessors /\ last'.hw # << >>

\* C34: a discovery pass run by an accessor happens only with no background
\* thread and the completion event reset; it asks the capture graph service for
\* the build and the format only, leaves the graph not running, the running flag,
\* the running event and the control handles clear, the frame counter and the
\* deferred property maps as they were, tells the listener nothing but errors and
\* signals the completion event. No accessor step changes any of these, and
\* while no background thread exists no frame callback can come.
C34_NoDelivery ==
    /\ [][ Discovering =>
             /\ ~IsRunning /\ ~InfoCollectedEvent /\ DeviceMoniker # ""
             /\ UNCHANGED << pc, runVars, propVars, FramesCounter, crossbarInput >>
             /\ ~GraphRunning' /\ ~DeviceIsRunning' /\ ~DeviceIsRunningEvent'
             /\ \A i \in DOMAIN last'.hw : last'.hw[i][1] \in { "build", "SetFormat" }
             /\ \A i \in DOMAIN last'.note : last'.note[i][2] = "OnError"
             /\ InfoCollectedEvent' ]_vars
    /\ [][ lastCall'[1] \in Accessors => UNCHANGED << pc, runVars, propVars, FramesCounter >> ]_vars
    /\ []( ~IsRunning => ( ~ENABLED FrameCallback /\ ~DeviceIsRunningEvent ) )

\* A discovery pass was run after a streaming run that delivered frames, with a
\* listener registered and a deferred property waiting: the capabilities are cached.
C34_Witness ==
    /\ lastCall[1] = "GetCapabilities"
    /\ last.hw # << >>
    /\ Capabilities # << >>
    /\ last.ret = Capabilities
    /\ InfoCollectedEvent
    /\ ~IsRunning
    /\ FramesCounter > 0
    /\ Listener # NoListener
    /\ VideoPropertiesToSet # EmptyMap

-----------------------------------------------------------------------------
(* C35 *)

\* C35: whenever IsDeviceRunning( ) can take RunningSync and answers true, the
\* background thread is running; and whenever RunningSync is free the running
\* flag and the running event have the same value.
C35_FlagThreadEvent ==
    /\ ( RunningSyncOwner = None /\ IsDeviceRunning ) => IsRunning
    /\ RunningSyncOwner = None => ( DeviceIsRunning <=> DeviceIsRunningEvent )

\* IsDeviceRunning( ) answers true in the streaming loop after a stop request,
\* while a caller of WaitForStop( ) waits in Join( ).
C35_Witness ==
    /\ pc = "loop"
    /\ RunningSyncOwner = None
    /\ IsDeviceRunning
    /\ DeviceIsRunningEvent
    /\ ExitEvent
    /\ waiter = "Join"
    /\ FramesCounter > 0

-----------------------------------------------------------------------------
(* C36 *)

\* The source with every kind of caller that takes a lock or waits on an event,
\* the frame callback in two steps.
NextWaits ==
    \/ RunVideo
    \/ BufferCBEnter
    \/ \E bufferValid \in BOOLEAN : BufferCBLeave( bufferValid )
    \/ Start
    \/ SignalToStop
    \/ WaitForStop
    \/ WaitForStopReturn
    \/ SetListener( "L1" )
    \/ SetDeviceMoniker( "camB" )
    \/ SetResolution( Cap( 320, 240, 24, 30, 30, 5 ), 0 )
    \/ SetVideoProperty( VideoPropertyFirst, 1, FALSE )
    \/ GetVideoPropertyCall( VideoPropertyFirst, "ptr", "ptr" )
    \/ GetVideoPropertyRangeCall( VideoPropertyFirst, {} )
    \/ CollectInfo( "GetCapabilities" )
    \/ CollectInfoReturn( "GetCapabilities" )

SpecWaits == Init /\ [][NextWaits]_vars

\* C36: nobody waits in a cycle. A holder of Sync is an accessor in its wait of
\* 5 s or a frame callback, and either can return without any other lock; the
\* only holder of RunningSync across steps is the background thread in its entry
\* block, and it can go on whenever Sync is free; the background thread is kept
\* from a step only by a holder of Sync, at an error notification; a caller in
\* Join( ) holds no lock and can return once the thread has ended.
C36_NoWaitForever ==
    /\ SyncOwner \in Accessors => ( waiter = SyncOwner /\ ENABLED CollectInfoReturn( SyncOwner ) )
    /\ SyncOwner = "BufferCB" => ENABLED BufferCBLeave( TRUE )
    /\ SyncOwner \in { None, "BufferCB" } \cup Accessors
    /\ RunningSyncOwner = "RunVideo" => ( IsRunning /\ ( ENABLED RunVideo \/ SyncOwner # None ) )
    /\ RunningSyncOwner \in { None, "RunVideo" }
    /\ ( IsRunning /\ ~ENABLED RunVideo ) => ( SyncOwner # None /\ pc \in DOMAIN NotifySites )
    /\ ( waiter = "Join" /\ ~IsRunning ) => ENABLED WaitForStopReturn
    /\ waiter \in { None, "Join" } \cup Accessors

\* The background thread holds RunningSync and has to report a failed video
\* property while an accessor holds Sync in its wait for the completion event.
C36_Witness ==
    /\ pc = "nfVideoCfg"
    /\ RunningSyncOwner = "RunVideo"
    /\ SyncOwner = "GetCapabilities"
    /\ waiter = "GetCapabilities"
    /\ ~ENABLED RunVideo

-----------------------------------------------------------------------------
(* C37 *)

\* C37 as written: when Start( ) returns SuccessCode the background thread is
\* running and ExitEvent is not signaled.
C37_AsWritten ==
    [][ ( lastCall'[1] = "Start" /\ last'.ret = "SuccessCode" ) => ( IsRunning' /\ ~ExitEvent' ) ]_vars

-----------------------------------------------------------------------------
(* C38 *)

\* A turn of the streaming loop with a request pending, up to the return of
\* SetCurrentCrossbarInput( ): the flag is cleared and the stored pin is routed.
RunVideoLoopRoute ==
    /\ pc = "loop"
    /\ ~ExitEvent
    /\ NeedToSetVideoInput
    /\ IsCrossbarAvailable
    /\ NeedToSetVideoInput' = FALSE
    /\ crossbarInput' = SetCurrentCrossbarInput( DeviceCrossbarInputs( DeviceMoniker ), crossbarInput, VideoInput )
    /\ pc' = "readback"
    /\ lastCall' = Out( "RunVideo", << VideoInput >>, "void",
                        RouteCalls( DeviceCrossbarInputs( DeviceMoniker ), VideoInput ), << >> )
    /\ UNCHANGED << DeviceMoniker, Resolution, RequestedFps, VideoInput, cacheVars, InfoCollectedEvent,
                    Listener, ExitEvent, FramesCounter, runVars, propVars, lockVars, waiter, seen >>
    /\ UNCHANGED grabberVars

\* The rest of that turn: VideoInput = GetCurrentCrossbarInput( pCrossbar ).
RunVideoLoopReadBack ==
    /\ pc = "readback"
    /\ VideoInput' = GetCurrentCrossbarInput( DeviceCrossbarInputs( DeviceMoniker ), crossbarInput )
    /\ pc' = "loop"
    /\ lastCall' = BgOut( << >> )
    /\ UNCHANGED << DeviceMoniker, Resolution, RequestedFps, NeedToSetVideoInput, cacheVars,
                    InfoCollectedEvent, Listener, ExitEvent, FramesCounter, runVars, propVars,
                    lockVars, waiter, crossbarInput, seen >>
    /\ UNCHANGED grabberVars

\* The source with the routing turn of the loop taken in two steps and a caller
\* that starts and stops it and chooses the video input.
NextInputs ==
    \/ RunVideoLoopRoute
    \/ RunVideoLoopReadBack
    \/ ( RunVideo /\ ~( pc = "loop" /\ pc' = "loop" /\ NeedToSetVideoInput /\ IsCrossbarAvailable ) )
    \/ Start
    \/ SignalToStop
    \/ RoutingCalls

SpecInputs == Init /\ [][NextInputs]_vars

\* C38 as written: a request for a valid input of the crossbar that was stored
\* while the loop was routing is not overwritten by the loop's read-back.
C38_AsWritten ==
    [][ ( /\ pc = "readback"
          /\ pc' = "loop"
          /\ NeedToSetVideoInput
          /\ ~BadPin ) => VideoInput' = VideoInput ]_vars

-----------------------------------------------------------------------------
(* C39 *)

\* The source with the frame callback taken in two steps and a caller that
\* starts and stops it and registers one listener, another, or none.
NextListeners ==
    \/ RunVideo
    \/ BufferCBEnter
    \/ \E bufferValid \in BOOLEAN : BufferCBLeave( bufferValid )
    \/ Start
    \/ SignalToStop
    \/ \E listener \in { "L1", "L2", NoListener } : SetListener( listener )

SpecListeners == Init /\ [][NextListeners]_vars

\* the listeners told something by the step
Told == { last'.note[i][1] : i \in DOMAIN last'.note }

\* C39: SetListener( ) returns only when no frame callback is in progress, and
\* the listener does not change during one; every OnNewImage and OnError call of
\* a step goes to the listener registered at that moment, so none goes to a
\* listener that was replaced or removed. With no listener registered a frame
\* callback tells nobody and still counts the frame while ExitEvent is not
\* signaled; as long as ExitEvent stays signaled FramesCounter does not change.
C39_ListenerSwitch ==
    /\ [][ lastCall'[1] = "SetListener" =>
             ( SyncOwner = None /\ SyncOwner' = None /\ Listener' = last'.arg[1] ) ]_vars
    /\ [][ SyncOwner = "BufferCB" => Listener' = Listener ]_vars
    /\ [][ lastCall'[1] # "SetListener" => ( Listener' = Listener /\ Told \subseteq { Listener } \ { NoListener } ) ]_vars
    /\ [][ ( lastCall'[1] = "BufferCB" /\ Listener = NoListener ) =>
             /\ last'.note = << >>
             /\ ( SyncOwner = None /\ ~ExitEvent ) => FramesCounter' = FramesCounter + 1 ]_vars
    /\ [][ ( ExitEvent /\ ExitEvent' ) => FramesCounter' = FramesCounter ]_vars

\* A frame that came after the stop signal was given to the second listener and
\* not counted; one frame had been counted before.
C39_Witness ==
    /\ lastCall[1] = "BufferCB"
    /\ last.note = << << "L2", "OnNewImage", "" >> >>
    /\ Listener = "L2"
    /\ SyncOwner = None
    /\ ExitEvent
    /\ FramesCounter = 1

-----------------------------------------------------------------------------
(* C40 *)

\* the pass of the step did not get as far as the caches
PassFailed == last'.hw[1] \in { << "build", "noSourceFilter" >>, << "build", "basicInitializationFailed" >> }

\* C40: a discovery pass run by an accessor that cannot create the graph objects
\* or bind the device signals the completion event, leaves the caches as they
\* are and returns them; while the event is signaled every accessor returns the
\* caches without a pass of its own; and the event is reset only by a
\* SetDeviceMoniker( ) that returns true and by a Start( ) that creates the thread.
C40_FailedPassCompletes ==
    /\ [][ ( Discovering /\ PassFailed ) =>
             /\ InfoCollectedEvent'
             /\ UNCHANGED << cacheVars, pc >>
             /\ last'.ret = CacheResult( lastCall'[1], Capabilities, VideoPins, IsCrossbarAvailable ) ]_vars
    /\ [][ ( lastCall'[1] \in Accessors /\ DeviceMoniker # "" /\ InfoCollectedEvent ) =>
             /\ last'.hw = << >>
             /\ InfoCollectedEvent'
             /\ UNCHANGED << cacheVars, pc >>
             /\ last'.ret = CacheResult( lastCall'[1], Capabilities, VideoPins, IsCrossbarAvailable ) ]_vars
    /\ [][ ( InfoCollectedEvent /\ ~InfoCollectedEvent' ) =>
             \/ lastCall'[1] = "SetDeviceMoniker" /\ last'.ret = TRUE
             \/ lastCall'[1] = "Start" /\ last'.ret # "ErrorInvalidConfiguration" /\ ~IsRunning ]_vars

\* GetCapabilities( ) ran a pass that did not find the device: it returned the
\* empty list and the completion event is signaled.
C40_Witness ==
    /\ lastCall[1] = "GetCapabilities"
    /\ last.hw = << << "build", "noSourceFilter" >> >>
    /\ last.ret = << >>
    /\ Capabilities = << >>
    /\ InfoCollectedEvent
    /\ ~IsRunning
    /\ DeviceMoniker = "camA"
    /\ ENABLED CollectInfo( "GetInputVideoPins" )

=============================================================================
